---------------------------- MODULE Spec2Model ----------------------------
(***************************************************************************)
(* Model of the quiz generator's provider resolver, provider dispatch,     *)
(* response recovery and the generate_quiz loops.                          *)
(*                                                                         *)
(* Text is modelled as a sequence of atoms.  Platform and model names are  *)
(* sequences of single characters, so that startswith / in / split work    *)
(* on the characters as they do in Python.  Response texts are sequences   *)
(* of lexical atoms (punctuation, delimiters, words).                      *)
(***************************************************************************)
EXTENDS Integers, Sequences, FiniteSets, TLC

VARIABLES
    environ,     \* os.environ restricted to the four credential variables
    resolved,    \* the last call of select_platform_and_model: arguments, evidence, result
    dispatched,  \* the last call of get_host_agent_response
    parsed,      \* the last call of parse_question_response
    listed,      \* the last call of get_available_ollama_models
    history,     \* the calls of select_platform_and_model made so far, in order
    pc,          \* position of the running generate_quiz request
    req,         \* arguments of the running generate_quiz request
    sel,         \* (selected_platform, selected_model) of quiz_generator_server.generate_quiz
    course,      \* microcourse_content of quiz_generator_server.generate_quiz
    i,           \* loop index of the question loop
    prompt,      \* the local variable prompt of the question loop
    response,    \* the local variable response of the question loop
    questions,   \* the list questions
    steps,       \* the provider calls the running request went through, in order
    outcome      \* how the request ended

vars == <<environ, resolved, dispatched, parsed, listed, history, pc, req, sel, course, i,
          prompt, response, questions, steps, outcome>>

---------------------------------------------------------------------------
(* Bounds of the model.                                                    *)

MaxLocalModels == 2      \* longest list of names the local service reports
MaxQuestions == 2        \* largest num_questions of a request

---------------------------------------------------------------------------
(* Python values.                                                          *)

\* None, kept a sequence so that it compares with strings.
None == <<"None">>

\* bool(x) of an Optional[str]: None and "" are false.
Truthy(x) == x # None /\ x # <<>>

StartsWith(s, p) == Len(s) >= Len(p) /\ SubSeq(s, 1, Len(p)) = p

EndsWith(s, p) == Len(s) >= Len(p) /\ SubSeq(s, Len(s) - Len(p) + 1, Len(s)) = p

\* p in s
Contains(s, p) ==
    \E k \in 1..(Len(s) - Len(p) + 1) : SubSeq(s, k, k + Len(p) - 1) = p

\* s[a:len(s)-b] for a, b >= 0
Slice(s, a, b) == IF Len(s) < a + b THEN <<>> ELSE SubSeq(s, a + 1, Len(s) - b)

Min(S) == CHOOSE x \in S : \A y \in S : x <= y

Max(S) == CHOOSE x \in S : \A y \in S : x >= y

---------------------------------------------------------------------------
(* Names of platforms and models, character by character.                  *)

S_anthropic == <<"a", "n", "t", "h", "r", "o", "p", "i", "c">>
S_openai == <<"o", "p", "e", "n", "a", "i">>
S_openrouter == <<"o", "p", "e", "n", "r", "o", "u", "t", "e", "r">>
S_groq == <<"g", "r", "o", "q">>
S_ollama == <<"o", "l", "l", "a", "m", "a">>
S_no_model_available == <<"n", "o", "_", "m", "o", "d", "e", "l", "_", "a", "v", "a", "i", "l", "a", "b", "l", "e">>
S_claude == <<"c", "l", "a", "u", "d", "e">>
S_gpt == <<"g", "p", "t">>
S_llama == <<"l", "l", "a", "m", "a">>
S_qwen == <<"q", "w", "e", "n">>
S_ollama_colon == <<"o", "l", "l", "a", "m", "a", ":">>
M_claude == <<"c", "l", "a", "u", "d", "e", "-", "3", "-", "7", "-", "s", "o", "n", "n", "e", "t", "-", "2", "0", "2", "5", "0", "2", "1", "9">>
M_gpt4o == <<"g", "p", "t", "-", "4", "o">>
M_llama3 == <<"l", "l", "a", "m", "a", "3", "-", "7", "0", "b", "-", "8", "1", "9", "2">>
M_qwen == <<"q", "w", "e", "n", "/", "q", "w", "e", "n", "-", "2", ".", "5", "-", "7", "2", "b", "-", "i", "n", "s", "t", "r", "u", "c", "t", ":", "f", "r", "e", "e">>

\* The credential variables.
CredentialKeys == {"ANTHROPIC_API_KEY", "OPENAI_API_KEY", "OPENROUTER_API_KEY", "GROQ_API_KEY"}

\* os.environ.get(key)
EnvGet(env, key) == env[key]

---------------------------------------------------------------------------
(* get_available_ollama_models                                             *)

Digits == <<"0", "1", "2", "3", "4", "5", "6", "7", "8", "9">>

IsDigit(c) == \E d \in 1..10 : Digits[d] = c

DigitVal(c) == (CHOOSE d \in 1..10 : Digits[d] = c) - 1

UpperChars == <<"A", "B", "C", "D", "E", "F", "G", "H", "I", "J", "K", "L", "M",
                "N", "O", "P", "Q", "R", "S", "T", "U", "V", "W", "X", "Y", "Z">>

LowerChars == <<"a", "b", "c", "d", "e", "f", "g", "h", "i", "j", "k", "l", "m",
                "n", "o", "p", "q", "r", "s", "t", "u", "v", "w", "x", "y", "z">>

\* str.lower(), one character
LowerChar(c) ==
    IF \E k \in 1..26 : UpperChars[k] = c
    THEN LowerChars[CHOOSE k \in 1..26 : UpperChars[k] = c]
    ELSE c

Lower(s) == [k \in 1..Len(s) |-> LowerChar(s[k])]

\* int() of a run of digits
RECURSIVE ToInt(_)
ToInt(ds) ==
    IF ds = <<>> THEN 0
    ELSE 10 * ToInt(SubSeq(ds, 1, Len(ds) - 1)) + DigitVal(ds[Len(ds)])

\* The end of the longest run of digits that starts at k.
DigitRunEnd(s, k) ==
    Max({j \in k..Len(s) : \A x \in k..j : IsDigit(s[x])})

\* The value get_param_size gives a name without a <digits>b pattern.
NoSizeKey == 1000

\* Where r'(\d+)b' can match in s: a digit whose run of digits is followed by b.
SizeMatches(s) ==
    {k \in 1..Len(s) : /\ IsDigit(s[k])
                       /\ DigitRunEnd(s, k) < Len(s)
                       /\ s[DigitRunEnd(s, k) + 1] = "b"}

\* int(match.group(1)) of the leftmost match, or the default without a match.
SizeOfFirstMatch(s, starts) ==
    IF starts = {} THEN NoSizeKey
    ELSE ToInt(SubSeq(s, Min(starts), DigitRunEnd(s, Min(starts))))

\* re.search(r'(\d+)b', s) on the lowered name s
SizeOfLowered(s) == SizeOfFirstMatch(s, SizeMatches(s))

\* get_param_size: re.search(r'(\d+)b', model_name.lower()), leftmost match.
get_param_size(model_name) == SizeOfLowered(Lower(model_name))

\* The last position of sorted whose key is not larger than the key of x, 0 if none.
LastNotLarger(sorted, x) ==
    Max({0} \cup {k \in 1..Len(sorted) : get_param_size(sorted[k]) <= get_param_size(x)})

InsertAt(sorted, x, n) == SubSeq(sorted, 1, n) \o <<x>> \o SubSeq(sorted, n + 1, Len(sorted))

\* One step of sorted(): x goes after every element whose key is not larger (stable).
InsertByKey(sorted, x) == InsertAt(sorted, x, LastNotLarger(sorted, x))

RECURSIVE SortedBySize(_)
SortedBySize(names) ==
    IF names = <<>> THEN <<>>
    ELSE InsertByKey(SortedBySize(SubSeq(names, 1, Len(names) - 1)), names[Len(names)])

\* What the query of the local endpoint does, as the exception it raises inside
\* get_available_ollama_models ("none": the listing is read).
ProbeException(probe) ==
    CASE probe.kind = "connect_fail"  -> "CalledProcessError"
      [] probe.kind = "no_curl"       -> "FileNotFoundError"
      [] probe.kind = "not_json"      -> "JSONDecodeError"
      [] probe.kind = "not_iterable"  -> "TypeError"
      [] probe.kind = "no_name"       -> "KeyError"
      [] OTHER                        -> "none"

\* The except clauses without the closing `except Exception`.
ProbeHandlers_NoCatchAll == {"CalledProcessError", "JSONDecodeError"}

\* The except clauses of get_available_ollama_models; the last one is `except Exception`.
ProbeHandlers == {"CalledProcessError", "JSONDecodeError", "Exception"}

ProbeCaught(exc) == exc \in ProbeHandlers \/ "Exception" \in ProbeHandlers

\* get_available_ollama_models: [raised, models]
get_available_ollama_models(probe) ==
    LET exc == ProbeException(probe)
    IN  IF exc # "none"
        THEN [raised |-> IF ProbeCaught(exc) THEN "none" ELSE exc, models |-> <<>>]
        ELSE IF probe.kind = "ok" /\ Len(probe.names) > 0
             THEN [raised |-> "none", models |-> SortedBySize(probe.names)]
             ELSE [raised |-> "none", models |-> <<>>]

---------------------------------------------------------------------------
(* select_platform_and_model                                               *)

\* Rule 2 with a llama name sent to the local provider.
InferPlatform_LlamaToOllama(specified_model) ==
    IF StartsWith(specified_model, S_claude) THEN S_anthropic
    ELSE IF StartsWith(specified_model, S_gpt) THEN S_openai
    ELSE IF StartsWith(specified_model, S_llama) THEN S_ollama
    ELSE IF StartsWith(specified_model, S_qwen) \/ Contains(specified_model, S_openrouter)
         THEN S_openrouter
    ELSE IF specified_model = S_ollama \/ StartsWith(specified_model, S_ollama_colon)
         THEN S_ollama
    ELSE S_anthropic

\* Rule 2: the platform of a model name.
InferPlatform(specified_model) ==
    IF StartsWith(specified_model, S_claude) THEN S_anthropic
    ELSE IF StartsWith(specified_model, S_gpt) THEN S_openai
    ELSE IF StartsWith(specified_model, S_llama) THEN S_groq
    ELSE IF StartsWith(specified_model, S_qwen) \/ Contains(specified_model, S_openrouter)
         THEN S_openrouter
    ELSE IF specified_model = S_ollama \/ StartsWith(specified_model, S_ollama_colon)
         THEN S_ollama
    ELSE S_anthropic

\* Rule 3 with an unknown platform kept as it is.
DefaultPair_KeepsUnknown(specified_platform) ==
    IF specified_platform = S_anthropic THEN <<S_anthropic, M_claude>>
    ELSE IF specified_platform = S_openai THEN <<S_openai, M_gpt4o>>
    ELSE IF specified_platform = S_groq THEN <<S_groq, M_llama3>>
    ELSE IF specified_platform = S_openrouter THEN <<S_openrouter, M_qwen>>
    ELSE IF specified_platform = S_ollama THEN <<S_ollama, S_ollama>>
    ELSE <<specified_platform, M_claude>>

\* Rule 3: the pair for a platform name.
DefaultPair(specified_platform) ==
    IF specified_platform = S_anthropic THEN <<S_anthropic, M_claude>>
    ELSE IF specified_platform = S_openai THEN <<S_openai, M_gpt4o>>
    ELSE IF specified_platform = S_groq THEN <<S_groq, M_llama3>>
    ELSE IF specified_platform = S_openrouter THEN <<S_openrouter, M_qwen>>
    ELSE IF specified_platform = S_ollama THEN <<S_ollama, S_ollama>>
    ELSE <<S_anthropic, M_claude>>

\* Rule 4 with groq checked before openrouter.
CredentialOrder_GroqBeforeOpenRouter ==
    << [key |-> "ANTHROPIC_API_KEY",  platform |-> S_anthropic,  model |-> M_claude],
       [key |-> "OPENAI_API_KEY",     platform |-> S_openai,     model |-> M_gpt4o],
       [key |-> "GROQ_API_KEY",       platform |-> S_groq,       model |-> M_llama3],
       [key |-> "OPENROUTER_API_KEY", platform |-> S_openrouter, model |-> M_qwen] >>

\* Rule 4: the credential checks in the order the code makes them.
CredentialOrder ==
    << [key |-> "ANTHROPIC_API_KEY",  platform |-> S_anthropic,  model |-> M_claude],
       [key |-> "OPENAI_API_KEY",     platform |-> S_openai,     model |-> M_gpt4o],
       [key |-> "OPENROUTER_API_KEY", platform |-> S_openrouter, model |-> M_qwen],
       [key |-> "GROQ_API_KEY",       platform |-> S_groq,       model |-> M_llama3] >>

\* Rule 4 after the credential checks, got being what get_available_ollama_models
\* gave: the local provider with the first model, or the sentinel.
LocalPair(got) ==
    IF got.raised # "none"
    THEN [raised |-> got.raised, platform |-> None, model |-> None,
          probed |-> TRUE, keysRead |-> CredentialKeys]
    ELSE IF got.models # <<>>
         THEN [raised |-> "none", platform |-> S_ollama,
               model |-> S_ollama_colon \o got.models[1],
               probed |-> TRUE, keysRead |-> CredentialKeys]
         ELSE [raised |-> "none", platform |-> S_no_model_available,
               model |-> S_no_model_available,
               probed |-> TRUE, keysRead |-> CredentialKeys]

LocalFallback(probe) == LocalPair(get_available_ollama_models(probe))

\* The positions of CredentialOrder whose variable is set to a non-empty value.
CredentialHits(env) ==
    {k \in 1..Len(CredentialOrder) : Truthy(EnvGet(env, CredentialOrder[k].key))}

\* The return of the k-th credential check.
CredentialPair(k) ==
    [raised |-> "none",
     platform |-> CredentialOrder[k].platform,
     model |-> CredentialOrder[k].model,
     probed |-> FALSE,
     keysRead |-> {CredentialOrder[j].key : j \in 1..k}]

\* Rule 4.
FallbackSelect(env, probe) ==
    IF CredentialHits(env) # {} THEN CredentialPair(Min(CredentialHits(env)))
    ELSE LocalFallback(probe)

\* Rule 1 with the platform checked against the known ones.
ExplicitPair_Validated(specified_platform, specified_model) ==
    [raised |-> "none", platform |-> DefaultPair(specified_platform)[1],
     model |-> specified_model, probed |-> FALSE, keysRead |-> {}]

\* Rule 1: both given.
ExplicitPair(specified_platform, specified_model) ==
    [raised |-> "none", platform |-> specified_platform, model |-> specified_model,
     probed |-> FALSE, keysRead |-> {}]

\* select_platform_and_model(specified_platform, specified_model) under the evidence
\* (env, probe).  probed: the local service was queried; keysRead: the credential
\* variables that were read.
select_platform_and_model(specified_platform, specified_model, env, probe) ==
    IF Truthy(specified_platform) /\ Truthy(specified_model)
    THEN ExplicitPair(specified_platform, specified_model)
    ELSE IF Truthy(specified_model)
    THEN [raised |-> "none", platform |-> InferPlatform(specified_model),
          model |-> specified_model, probed |-> FALSE, keysRead |-> {}]
    ELSE IF Truthy(specified_platform)
    THEN [raised |-> "none", platform |-> DefaultPair(specified_platform)[1],
          model |-> DefaultPair(specified_platform)[2], probed |-> FALSE, keysRead |-> {}]
    ELSE FallbackSelect(env, probe)

---------------------------------------------------------------------------
(* JSON texts.  A text is a sequence of atoms: the punctuation of JSON,    *)
(* the quote, white space, single digits, the delimiters of the recovery   *)
(* pipeline and words.                                                     *)

QUOTE == "\""
NL == "\n"
SP == " "
ESC_QUOTE == "\\\""       \* the two characters backslash, quote
ESC_NL == "\\n"           \* the two characters backslash, n
THINK_OPEN == "<think>"
THINK_CLOSE == "</think>"
FENCE == "<fence>"         \* stands for the three backquotes of a markdown fence

\* Python values, as the json module and the question records hold them.
JStr(atoms) == [t |-> "str", v |-> atoms]
JNum(digits) == [t |-> "num", v |-> digits]
JTrue == [t |-> "bool", v |-> <<"true">>]
JFalse == [t |-> "bool", v |-> <<"false">>]
JNull == [t |-> "null", v |-> <<>>]
JArr(elems) == [t |-> "arr", v |-> elems]
\* A dict: its (key, value) pairs in insertion order, keys distinct.
JObj(pairs) == [t |-> "obj", v |-> pairs]

\* d[key] = val on the pairs of a dict
DictSet(pairs, key, val) ==
    IF \E k \in 1..Len(pairs) : pairs[k][1] = key
    THEN [k \in 1..Len(pairs) |-> IF pairs[k][1] = key THEN <<key, val>> ELSE pairs[k]]
    ELSE Append(pairs, <<key, val>>)

\* key in d
DictHas(d, key) == \E k \in 1..Len(d.v) : d.v[k][1] = key

\* d[key], for a key of d
DictAt(d, key) == d.v[CHOOSE k \in 1..Len(d.v) : d.v[k][1] = key][2]

\* d.get(key, default)
DictGet(d, key, default) == IF DictHas(d, key) THEN DictAt(d, key) ELSE default

IsWs(a) == a \in {SP, NL, "\t", "\r"}

RECURSIVE SkipWs(_, _)
SkipWs(s, k) == IF k <= Len(s) /\ IsWs(s[k]) THEN SkipWs(s, k + 1) ELSE k

\* str.strip()
Strip(s) ==
    LET keep == {k \in 1..Len(s) : ~IsWs(s[k])}
    IN  IF keep = {} THEN <<>> ELSE SubSeq(s, Min(keep), Max(keep))

ParseFail == [ok |-> FALSE, val |-> JNull, next |-> 0]

\* Inside a JSON string: the escapes become the characters they stand for.
Unescape(body) ==
    [k \in 1..Len(body) |->
        IF body[k] = ESC_QUOTE THEN QUOTE ELSE IF body[k] = ESC_NL THEN NL ELSE body[k]]

\* json.dumps of the characters of a string
Escape(atoms) ==
    [k \in 1..Len(atoms) |->
        IF atoms[k] = QUOTE THEN ESC_QUOTE ELSE IF atoms[k] = NL THEN ESC_NL ELSE atoms[k]]

\* A string literal whose opening quote is s[k]; a raw control character ends the parse.
ParseString(s, k) ==
    LET closers == {j \in (k + 1)..Len(s) : s[j] = QUOTE}
    IN  IF closers = {} THEN ParseFail
        ELSE LET j == Min(closers)
                 body == SubSeq(s, k + 1, j - 1)
             IN  IF \E x \in 1..Len(body) : body[x] \in {NL, "\t", "\r"}
                 THEN ParseFail
                 ELSE [ok |-> TRUE, val |-> JStr(Unescape(body)), next |-> j + 1]

RECURSIVE ParseValue(_, _)
RECURSIVE ParseMembers(_, _, _)
RECURSIVE ParseElements(_, _, _)

\* The members of an object, k at the first key; acc the pairs read so far.
ParseMembers(s, k, acc) ==
    IF k > Len(s) \/ s[k] # QUOTE THEN ParseFail
    ELSE LET key == ParseString(s, k)
         IN  IF ~key.ok THEN ParseFail
             ELSE LET k2 == SkipWs(s, key.next)
                  IN  IF k2 > Len(s) \/ s[k2] # ":" THEN ParseFail
                      ELSE LET val == ParseValue(s, SkipWs(s, k2 + 1))
                           IN  IF ~val.ok THEN ParseFail
                               ELSE LET k3 == SkipWs(s, val.next)
                                        acc2 == DictSet(acc, key.val.v, val.val)
                                    IN  IF k3 > Len(s) THEN ParseFail
                                        ELSE IF s[k3] = "}"
                                        THEN [ok |-> TRUE, val |-> JObj(acc2), next |-> k3 + 1]
                                        ELSE IF s[k3] = ","
                                        THEN ParseMembers(s, SkipWs(s, k3 + 1), acc2)
                                        ELSE ParseFail

\* The elements of an array, k at the first element; acc the values read so far.
ParseElements(s, k, acc) ==
    LET val == ParseValue(s, k)
    IN  IF ~val.ok THEN ParseFail
        ELSE LET k2 == SkipWs(s, val.next)
                 acc2 == Append(acc, val.val)
             IN  IF k2 > Len(s) THEN ParseFail
                 ELSE IF s[k2] = "]"
                 THEN [ok |-> TRUE, val |-> JArr(acc2), next |-> k2 + 1]
                 ELSE IF s[k2] = ","
                 THEN ParseElements(s, SkipWs(s, k2 + 1), acc2)
                 ELSE ParseFail

\* One JSON value starting at s[k].
ParseValue(s, k) ==
    IF k > Len(s) THEN ParseFail
    ELSE IF s[k] = QUOTE THEN ParseString(s, k)
    ELSE IF s[k] = "{"
    THEN LET k1 == SkipWs(s, k + 1)
         IN  IF k1 <= Len(s) /\ s[k1] = "}"
             THEN [ok |-> TRUE, val |-> JObj(<<>>), next |-> k1 + 1]
             ELSE ParseMembers(s, k1, <<>>)
    ELSE IF s[k] = "["
    THEN LET k1 == SkipWs(s, k + 1)
         IN  IF k1 <= Len(s) /\ s[k1] = "]"
             THEN [ok |-> TRUE, val |-> JArr(<<>>), next |-> k1 + 1]
             ELSE ParseElements(s, k1, <<>>)
    ELSE IF s[k] = "true" THEN [ok |-> TRUE, val |-> JTrue, next |-> k + 1]
    ELSE IF s[k] = "false" THEN [ok |-> TRUE, val |-> JFalse, next |-> k + 1]
    ELSE IF s[k] = "null" THEN [ok |-> TRUE, val |-> JNull, next |-> k + 1]
    ELSE IF IsDigit(s[k])
    THEN [ok |-> TRUE, val |-> JNum(SubSeq(s, k, DigitRunEnd(s, k))),
          next |-> DigitRunEnd(s, k) + 1]
    ELSE ParseFail

\* json.loads: [ok, val]; ok = FALSE stands for json.JSONDecodeError.
json_loads(s) ==
    LET r == ParseValue(s, SkipWs(s, 1))
    IN  IF r.ok /\ SkipWs(s, r.next) > Len(s)
        THEN [ok |-> TRUE, val |-> r.val]
        ELSE [ok |-> FALSE, val |-> JNull]

RECURSIVE json_dumps(_)
RECURSIVE DumpsJoin(_, _)

\* ", ".join of the dumped elements of an array (kind "arr") or members of a dict
DumpsJoin(items, kind) ==
    IF items = <<>> THEN <<>>
    ELSE LET one == IF kind = "arr" THEN json_dumps(items[1])
                    ELSE <<QUOTE>> \o Escape(items[1][1]) \o <<QUOTE, ":", SP>>
                         \o json_dumps(items[1][2])
         IN  IF Len(items) = 1 THEN one
             ELSE one \o <<",", SP>> \o DumpsJoin(Tail(items), kind)

\* json.dumps with the default separators
json_dumps(val) ==
    IF val.t = "str" THEN <<QUOTE>> \o Escape(val.v) \o <<QUOTE>>
    ELSE IF val.t = "num" THEN val.v
    ELSE IF val.t = "bool" THEN val.v
    ELSE IF val.t = "null" THEN <<"null">>
    ELSE IF val.t = "arr" THEN <<"[">> \o DumpsJoin(val.v, "arr") \o <<"]">>
    ELSE <<"{">> \o DumpsJoin(val.v, "obj") \o <<"}">>


---------------------------------------------------------------------------
(* clean_json_response                                                     *)

\* h in response, for a delimiter or header that is one atom
HasAtom(s, a) == \E k \in 1..Len(s) : s[k] = a

\* s.split(sep)[1], for a text that contains sep
SplitSecond(s, sep) ==
    LET at == {k \in 1..Len(s) : s[k] = sep}
        first == Min(at)
        rest == at \ {first}
        stop == IF rest = {} THEN Len(s) + 1 ELSE Min(rest)
    IN  SubSeq(s, first + 1, stop - 1)

\* Stage 1: the reasoning preamble.
AfterThink(r) ==
    IF HasAtom(r, THINK_OPEN) /\ HasAtom(r, THINK_CLOSE)
    THEN Strip(SplitSecond(r, THINK_CLOSE))
    ELSE r

\* Stage 2: the code fence; "json" directly after the fence is the language tag the
\* first test looks for.
Unfence(r) ==
    IF StartsWith(r, <<FENCE, "json">>) /\ EndsWith(r, <<FENCE>>)
    THEN Strip(Slice(r, 2, 1))
    ELSE IF StartsWith(r, <<FENCE>>) /\ EndsWith(r, <<FENCE>>)
    THEN Strip(Slice(r, 1, 1))
    ELSE r

question_headers == <<"**Question:**", "**Question Stem:**">>
options_headers == <<"**Options:**">>
answer_headers == <<"**Correct Answer:**", "**Answer:**">>

\* next((h for h in headers if h in response), None) is not None
HeaderPresent(headers, r) == \E k \in 1..Len(headers) : HasAtom(r, headers[k])

\* The test that opens stage 4.
HasLabeledBlock(r) ==
    HeaderPresent(question_headers, r) /\ HeaderPresent(options_headers, r)
        /\ HeaderPresent(answer_headers, r)

\* Stage 4.  The function imports re further down, which makes re a local name of
\* the whole function: its first use here, before that import ran, raises.
LabeledBlock(r) == [raised |-> "UnboundLocalError", text |-> r]

\* Stage 5 with a pattern that stops at the first closing brace.
BraceSpan_FirstClose(r) ==
    LET opens == {k \in 1..Len(r) : r[k] = "{"}
        closes == {k \in 1..Len(r) : r[k] = "}" /\ opens # {} /\ k > Min(opens)}
    IN  IF closes # {}
        THEN [found |-> TRUE, text |-> SubSeq(r, Min(opens), Min(closes))]
        ELSE [found |-> FALSE, text |-> r]

\* Stage 5: re.search(r'({[\s\S]*})', response): from the first opening brace to
\* the last closing brace.
BraceSpan(r) ==
    LET opens == {k \in 1..Len(r) : r[k] = "{"}
        closes == {k \in 1..Len(r) : r[k] = "}"}
    IN  IF opens # {} /\ closes # {} /\ Min(opens) < Max(closes)
        THEN [found |-> TRUE, text |-> SubSeq(r, Min(opens), Max(closes))]
        ELSE [found |-> FALSE, text |-> r]

\* Stages 3 to 6 on the text r the first two stages left.
RecoverJson(r) ==
    IF json_loads(r).ok THEN [raised |-> "none", text |-> r]
    ELSE IF HasLabeledBlock(r) THEN LabeledBlock(r)
    ELSE [raised |-> "none", text |-> BraceSpan(r).text]

\* clean_json_response: [raised, text]
clean_json_response(raw) == RecoverJson(Unfence(AfterThink(raw)))

---------------------------------------------------------------------------
(* AnthropicQuestionGenerator.parse_question_response                      *)

K_question == <<"question">>
K_options == <<"options">>
K_correct_answer == <<"correct_answer">>
K_explanation == <<"explanation">>
K_concept_phrase == <<"concept_phrase">>
K_language == <<"language">>
K_type == <<"type">>
K_error == <<"error">>

RECURSIVE PyStr(_)
RECURSIVE PyReprJoin(_, _)

\* repr() of a value inside a list or dict
PyRepr(val) == IF val.t = "str" THEN <<"'">> \o val.v \o <<"'">> ELSE PyStr(val)

PyReprJoin(items, kind) ==
    IF items = <<>> THEN <<>>
    ELSE LET one == IF kind = "arr" THEN PyRepr(items[1])
                    ELSE <<"'">> \o items[1][1] \o <<"'", ":", SP>> \o PyRepr(items[1][2])
         IN  IF Len(items) = 1 THEN one
             ELSE one \o <<",", SP>> \o PyReprJoin(Tail(items), kind)

\* The text an f-string gives a value.
PyStr(val) ==
    IF val.t = "str" THEN val.v
    ELSE IF val.t = "num" THEN val.v
    ELSE IF val.t = "bool" THEN (IF val = JTrue THEN <<"True">> ELSE <<"False">>)
    ELSE IF val.t = "null" THEN <<"None">>
    ELSE IF val.t = "arr" THEN <<"[">> \o PyReprJoin(val.v, "arr") \o <<"]">>
    ELSE <<"{">> \o PyReprJoin(val.v, "obj") \o <<"}">>

\* The keys the constructor call of a question type reads with data[...], in order.
SubscriptedKeys(question_type) ==
    IF question_type = "multiple_choice"
    THEN <<K_question, K_options, K_correct_answer>>
    ELSE <<K_question, K_correct_answer>>

\* A default explanation that always names the topic.
ExplanationOrDefault_TopicOnly(data, topic) ==
    DictGet(data, K_explanation, JStr(<<"This is a question about ">> \o topic \o <<".">>))

\* data.get("explanation", f"This is a question about {data.get('concept_phrase', topic)}.")
ExplanationOrDefault(data, topic) ==
    DictGet(data, K_explanation,
            JStr(<<"This is a question about ">>
                 \o PyStr(DictGet(data, K_concept_phrase, JStr(topic))) \o <<".">>))

\* The record built from a parsed dict that has the subscripted keys.
RecordFromData(data, question_type, topic, subtopic, focus) ==
    LET base == [type |-> IF question_type \in {"multiple_choice", "true_false"}
                          THEN question_type ELSE "cloze",
                 question |-> DictAt(data, K_question),
                 correct_answer |-> DictAt(data, K_correct_answer),
                 explanation |-> ExplanationOrDefault(data, topic),
                 topic |-> topic, subtopic |-> subtopic, focus |-> focus,
                 language |-> DictGet(data, K_language, JNull),
                 concept_phrase |-> DictGet(data, K_concept_phrase, JStr(<<>>))]
    IN  IF question_type = "multiple_choice"
        THEN base @@ [options |-> DictAt(data, K_options)]
        ELSE base

PlaceholderExplanation ==
    JStr(<<"This is a placeholder explanation due to an ", "error", " in question generation.">>)

\* The record of the except branch.
PlaceholderRecord(question_type, topic, subtopic, focus) ==
    LET base == [type |-> IF question_type \in {"multiple_choice", "true_false"}
                          THEN question_type ELSE "cloze",
                 question |-> JStr(<<"Error generating question about ">> \o topic
                                   \o <<". Please try again.">>),
                 correct_answer |-> JStr(<<"A">>),
                 explanation |-> PlaceholderExplanation,
                 topic |-> topic, subtopic |-> subtopic, focus |-> focus,
                 language |-> JNull,
                 concept_phrase |-> JStr(<<"Error in ">> \o topic)]
    IN  IF question_type = "multiple_choice"
        THEN base @@ [options |-> JArr(<<JStr(<<"A.", SP, "First option">>),
                                         JStr(<<"B.", SP, "Second option">>),
                                         JStr(<<"C.", SP, "Third option">>),
                                         JStr(<<"D.", SP, "Fourth option">>)>>)]
        ELSE IF question_type = "true_false"
        THEN [base EXCEPT !.correct_answer = JTrue]
        ELSE [base EXCEPT !.question = JStr(<<"Error generating question about ">> \o topic
                                            \o <<". Please fill in the ", "___", ".">>),
                          !.correct_answer = JStr(<<"blank">>)]

\* From data = json.loads(cleaned_response) on, loaded being what json.loads gave.
ParseLoaded(loaded, question_type, topic, subtopic, focus) ==
    IF ~loaded.ok THEN [raised |-> "JSONDecodeError", rec |-> <<>>]
    ELSE IF loaded.val.t # "obj" THEN [raised |-> "AttributeError", rec |-> <<>>]
    ELSE IF \E k \in 1..Len(SubscriptedKeys(question_type)) :
                ~DictHas(loaded.val, SubscriptedKeys(question_type)[k])
    THEN [raised |-> "KeyError", rec |-> <<>>]
    ELSE [raised |-> "none",
          rec |-> <<RecordFromData(loaded.val, question_type, topic, subtopic, focus)>>]

\* From cleaned_response = clean_json_response(response) on.
ParseCleaned(cleaned, question_type, topic, subtopic, focus) ==
    IF cleaned.raised # "none" THEN [raised |-> cleaned.raised, rec |-> <<>>]
    ELSE ParseLoaded(json_loads(cleaned.text), question_type, topic, subtopic, focus)

\* The body of the try block: [raised, rec], rec holding the record when none is raised.
ParseAttempt(raw, question_type, topic, subtopic, focus) ==
    ParseCleaned(clean_json_response(raw), question_type, topic, subtopic, focus)

\* An except clause that names json.JSONDecodeError only.
ParseHandlers_OnlyDecodeError == {"JSONDecodeError"}

\* except (json.JSONDecodeError, KeyError)
ParseHandlers == {"JSONDecodeError", "KeyError"}

\* The except clause after the try block gave try.
ParseExcept(try, question_type, topic, subtopic, focus) ==
    IF try.raised \in ParseHandlers
    THEN [raised |-> "none",
          rec |-> <<PlaceholderRecord(question_type, topic, subtopic, focus)>>]
    ELSE try

\* parse_question_response: [raised, rec]
parse_question_response(raw, question_type, topic, subtopic, focus) ==
    ParseExcept(ParseAttempt(raw, question_type, topic, subtopic, focus),
                question_type, topic, subtopic, focus)


---------------------------------------------------------------------------
(* get_host_agent_response                                                 *)

\* What lies outside the process during one call: the local listing (probe), whether
\* the groq package can be imported, and what the provider's completion call does.
\* completion.kind: "raises" (the call raises), "no_choices" (an empty list of
\* choices), "null_text" (the first choice has no text), "text" (it has the text
\* completion.text, which may be empty).
NoProbe == [kind |-> "unused", names |-> <<>>]
NoCompletion == [kind |-> "unused", text |-> <<>>]

\* An error object that also carries an answer.
ErrorResponse_WithAnswer(error, explanation) ==
    json_dumps(JObj(<< <<K_error, JStr(error)>>,
                       <<K_question, JStr(<<"Error generating question. Please try again.">>)>>,
                       <<K_correct_answer, JStr(<<"A">>)>>,
                       <<K_explanation, JStr(explanation)>> >>))

\* json.dumps({"error": ..., "question": ..., "explanation": ...})
ErrorResponse(error, explanation) ==
    json_dumps(JObj(<< <<K_error, JStr(error)>>,
                       <<K_question, JStr(<<"Error generating question. Please try again.">>)>>,
                       <<K_explanation, JStr(explanation)>> >>))

\* initialize_anthropic_client: a client when the key is set, else None.
initialize_anthropic_client(env) ==
    IF Truthy(EnvGet(env, "ANTHROPIC_API_KEY")) THEN <<"Anthropic">> ELSE None

\* The answer of the `except Exception` clause that closes the function.
OuterExcept(excText) ==
    ErrorResponse(<<"Error generating response: ", excText>>,
                  <<"An error occurred while generating the question.">>)

\* The answer of the except clause around the local transport.
OllamaExcept(excText) ==
    ErrorResponse(<<"Error generating response from Ollama: ", excText>>,
                  <<"An error occurred while generating the question with Ollama. Make sure Ollama is running and the model is available.">>)

\* The exception a completion raises in create() or while its first text is read
\* and logged ("none": the text is returned).
CompletionException(completion) ==
    CASE completion.kind = "raises"     -> "APIError"
      [] completion.kind = "no_choices" -> "IndexError"
      [] completion.kind = "null_text"  -> "TypeError"
      [] OTHER                          -> "none"

\* The except clauses narrowed to the provider's own error type.
TransportCaught_OnlyAPIError(exc) == exc = "APIError"

\* The exceptions of a completion call that the function's except clauses catch
\* (`except Exception`).
TransportCaught(exc) == TRUE

\* One chat-completion (messages.create) call through the client of `api` and what
\* the function returns after it: [raised, text, calls, error].
Transport(api, model, completion) ==
    LET exc == CompletionException(completion)
    IN  [raised |-> IF exc = "none" \/ TransportCaught(exc) THEN "none" ELSE exc,
         text |-> IF exc = "none" THEN completion.text
                  ELSE IF api = "ollama" THEN OllamaExcept(exc)
                  ELSE OuterExcept(exc),
         calls |-> << [api |-> api, model |-> model] >>,
         error |-> exc # "none"]

\* A return (or a caught exception) before any call is made.
NoTransport(text) == [raised |-> "none", text |-> text, calls |-> <<>>, error |-> TRUE]

\* The names the function body binds with an import statement are local to it.  The
\* openrouter branch reads openai without an import statement of its own having
\* run, so the name is unbound there.
OpenaiBoundInOpenRouterBranch == FALSE

\* The name the local transport would be given if the marked name were cut at every
\* colon and the second piece taken.
OllamaModelName_SplitAll(selected_model, models) ==
    IF selected_model = S_ollama THEN models[1]
    ELSE IF StartsWith(selected_model, S_ollama_colon)
    THEN SubSeq(selected_model, Len(S_ollama_colon) + 1,
                Min({k \in (Len(S_ollama_colon) + 1)..(Len(selected_model) + 1) :
                        k = Len(selected_model) + 1 \/ selected_model[k] = ":"}) - 1)
    ELSE selected_model

\* The model name the local transport is given.
OllamaModelName(selected_model, models) ==
    IF selected_model = S_ollama THEN models[1]
    ELSE IF StartsWith(selected_model, S_ollama_colon)
    THEN SubSeq(selected_model, Min({k \in 1..Len(selected_model) : selected_model[k] = ":"}) + 1,
                Len(selected_model))
    ELSE selected_model

GroqBranch(selected_model, env, w) ==
    IF ~w.groq_installed
    THEN NoTransport(ErrorResponse(<<"GROQ client not installed">>,
             <<"The GROQ client is not installed. Please install with 'pip install groq'.">>))
    ELSE IF ~Truthy(EnvGet(env, "GROQ_API_KEY"))
    THEN NoTransport(ErrorResponse(<<"No GROQ API key available">>,
             <<"The GROQ API key is not available. Make sure the GROQ_API_KEY environment variable is set.">>))
    ELSE Transport("groq", selected_model, w.completion)

\* The openai branch without the test of its credential.
OpenAIBranch_NoKeyCheck(selected_model, env, w) ==
    Transport("openai", selected_model, w.completion)

OpenAIBranch(selected_model, env, w) ==
    IF ~Truthy(EnvGet(env, "OPENAI_API_KEY"))
    THEN NoTransport(ErrorResponse(<<"No OpenAI API key available">>,
             <<"The OpenAI API key is not available. Make sure the OPENAI_API_KEY environment variable is set.">>))
    ELSE Transport("openai", selected_model, w.completion)

OpenRouterBranch(selected_model, env, w) ==
    IF ~Truthy(EnvGet(env, "OPENROUTER_API_KEY"))
    THEN NoTransport(ErrorResponse(<<"No OpenRouter API key available">>,
             <<"The OpenRouter API key is not available. Make sure the OPENROUTER_API_KEY environment variable is set.">>))
    ELSE IF ~OpenaiBoundInOpenRouterBranch
    THEN NoTransport(OuterExcept("UnboundLocalError"))
    ELSE Transport("openrouter", selected_model, w.completion)

OllamaBranch(selected_model, env, w) ==
    LET got == get_available_ollama_models(w.probe)
    IN  IF selected_model = S_ollama /\ got.models = <<>>
        THEN NoTransport(ErrorResponse(
                 <<"No Ollama models available. Please pull a model using 'ollama pull llama3' or similar.">>,
                 <<"No Ollama models are available. Please pull a model using 'ollama pull llama3' or similar.">>))
        ELSE Transport("ollama", OllamaModelName(selected_model, got.models), w.completion)

AnthropicBranch(selected_model, client, w) ==
    IF ~Truthy(client)
    THEN NoTransport(ErrorResponse(<<"No Anthropic client available">>,
             <<"The Anthropic client is not initialized. Make sure the ANTHROPIC_API_KEY environment variable is set.">>))
    ELSE Transport("anthropic", selected_model, w.completion)

\* The final else branch sending the prompt to the default provider.
UnknownPlatformBranch_CallsAnthropic(selected_platform) ==
    [raised |-> "none", text |-> <<>>,
     calls |-> << [api |-> "anthropic", model |-> selected_platform] >>, error |-> FALSE]

\* The final else branch: the resolved platform is none of the five.
UnknownPlatformBranch(selected_platform) ==
    NoTransport(ErrorResponse(<<"Unknown platform: ">> \o selected_platform,
             <<"The platform '">> \o selected_platform \o <<"' is not supported.">>))

\* The if / elif chain on selected_platform.
PlatformBranch(selected_platform, selected_model, client, env, w) ==
    IF selected_platform = S_groq THEN GroqBranch(selected_model, env, w)
    ELSE IF selected_platform = S_openai THEN OpenAIBranch(selected_model, env, w)
    ELSE IF selected_platform = S_openrouter THEN OpenRouterBranch(selected_model, env, w)
    ELSE IF selected_platform = S_ollama THEN OllamaBranch(selected_model, env, w)
    ELSE IF selected_platform = S_anthropic THEN AnthropicBranch(selected_model, client, w)
    ELSE UnknownPlatformBranch(selected_platform)

\* What the function returns after the branch b of the resolved pair s:
\* [raised, text, calls, error, platform, model, used]; platform and model are the
\* resolved pair, calls the completion calls made, error whether the text is an
\* error-marked response, used what the call consumed of w.
DispatchResult(s, b) ==
    [raised |-> b.raised, text |-> b.text, calls |-> b.calls, error |-> b.error,
     platform |-> s.platform, model |-> s.model,
     used |-> (IF s.probed \/ (s.platform = S_ollama /\ s.model = S_ollama)
               THEN {"probe"} ELSE {})
              \cup (IF s.platform = S_groq THEN {"groq_import"} ELSE {})
              \cup (IF b.calls # <<>> THEN {"completion"} ELSE {})]

\* The body of the function after the resolver answered with s.
DispatchSelected(s, client, env, w) ==
    IF s.raised # "none"
    THEN [raised |-> s.raised, text |-> <<>>, calls |-> <<>>, error |-> FALSE,
          platform |-> s.platform, model |-> s.model, used |-> {"probe"}]
    ELSE DispatchResult(s, PlatformBranch(s.platform, s.model,
                               IF ~Truthy(client) /\ s.platform = S_anthropic
                               THEN initialize_anthropic_client(env) ELSE client,
                               env, w))

\* get_host_agent_response(prompt, client, model, platform)
get_host_agent_response(client, model, platform, env, w) ==
    DispatchSelected(select_platform_and_model(platform, model, env, w.probe), client, env, w)


---------------------------------------------------------------------------
(* Inputs.                                                                 *)

\* A credential variable is unset, set to the empty string, or set to a key.
CredentialValues == {None, <<>>, <<"k">>}

EnvStates == [CredentialKeys -> CredentialValues]

\* Names a local service may list.
N_gemma70 == <<"g", "e", "m", "m", "a", ":", "7", "0", "b">>
N_phi3 == <<"p", "h", "i", "3", ":", "3", "B">>
N_tiny == <<"t", "i", "n", "y">>
LocalNames == {N_gemma70, N_phi3, N_tiny}

\* The listings of at most MaxLocalModels distinct names.
Listings ==
    UNION {{l \in [1..n -> LocalNames] : \A a, b \in 1..n : a # b => l[a] # l[b]} :
              n \in 0..MaxLocalModels}

ProbeFailureKinds == {"connect_fail", "no_curl", "not_json", "not_iterable", "no_name", "no_models_key"}

\* What a query of the local endpoint can give.
Probes ==
    {[kind |-> k, names |-> <<>>] : k \in ProbeFailureKinds}
        \cup {[kind |-> "ok", names |-> l] : l \in Listings}

\* Platform arguments: absent, empty, the five platforms, the sentinel, an unknown name.
S_azure == <<"a", "z", "u", "r", "e">>
PlatformArgs ==
    {None, <<>>, S_anthropic, S_openai, S_openrouter, S_groq, S_ollama,
     S_no_model_available, S_azure}

\* Model arguments.
M_mistral == <<"m", "i", "s", "t", "r", "a", "l", "-", "7", "b">>
M_openrouter_auto == <<"o", "p", "e", "n", "r", "o", "u", "t", "e", "r", "/", "a", "u", "t", "o">>
M_gpt_openrouter == <<"g", "p", "t", "-", "o", "p", "e", "n", "r", "o", "u", "t", "e", "r">>
M_ollama_phi3 == <<"o", "l", "l", "a", "m", "a", ":", "p", "h", "i", "3", ":", "3", "B">>
M_ollamax == <<"o", "l", "l", "a", "m", "a", "x">>
M_Claude2 == <<"C", "l", "a", "u", "d", "e", "-", "2">>
M_my_gpt == <<"m", "y", "-", "g", "p", "t">>
M_ollama_openrouter == <<"o", "l", "l", "a", "m", "a", ":">> \o M_openrouter_auto
ModelArgs ==
    {None, <<>>, M_claude, M_gpt4o, M_llama3, M_qwen, M_mistral, M_openrouter_auto,
     M_gpt_openrouter, S_ollama, M_ollama_phi3, M_ollamax, M_Claude2, M_my_gpt,
     M_ollama_openrouter, S_no_model_available}

NoCall == [called |-> FALSE]

IdleQuiz ==
    /\ pc = "idle"
    /\ req = NoCall
    /\ sel = <<None, None>>
    /\ course = None
    /\ i = 0
    /\ prompt = None
    /\ response = None
    /\ questions = <<>>
    /\ steps = <<>>
    /\ outcome = "none"

quizVars == <<pc, req, sel, course, i, prompt, response, questions, steps, outcome>>

---------------------------------------------------------------------------
(* The resolver, called with every combination of arguments and evidence.  *)

InitResolve ==
    /\ environ \in EnvStates
    /\ resolved = NoCall
    /\ dispatched = NoCall
    /\ parsed = NoCall
    /\ listed = NoCall
    /\ history = <<>>
    /\ IdleQuiz

\* One call of select_platform_and_model.  The local endpoint is queried only when
\* the call gets as far as the query.
Resolve ==
    /\ ~resolved.called
    /\ \E p \in PlatformArgs, m \in ModelArgs, probe \in Probes \cup {NoProbe} :
          \E r \in {select_platform_and_model(p, m, environ, probe)} :
              /\ r.probed <=> probe # NoProbe
              /\ resolved' = [called |-> TRUE, platform |-> p, model |-> m,
                              probe |-> probe, result |-> r]
    /\ UNCHANGED <<environ, dispatched, parsed, quizVars>>
    /\ UNCHANGED <<listed, history>>

SpecResolve == InitResolve /\ [][Resolve]_vars


---------------------------------------------------------------------------
(* Claims about the resolver (SpecResolve).                                *)

NeitherGiven == ~Truthy(resolved.platform) /\ ~Truthy(resolved.model)
BothGiven == Truthy(resolved.platform) /\ Truthy(resolved.model)
OnlyModelGiven == ~Truthy(resolved.platform) /\ Truthy(resolved.model)
OnlyPlatformGiven == Truthy(resolved.platform) /\ ~Truthy(resolved.model)

CredSet(key) == Truthy(environ[key])
NoCredSet == \A key \in CredentialKeys : ~CredSet(key)

ResolvedPair == <<resolved.result.platform, resolved.result.model>>

\* C3: with neither argument given, the checks run in the order anthropic, openai,
\* openrouter, groq, ollama and the first that succeeds decides the pair: its default
\* model for a cloud platform, "ollama:" + the first name of the size-sorted listing
\* for ollama.  A later platform is never returned while an earlier one is available.
C3_FallbackOrder ==
    (resolved.called /\ NeitherGiven) =>
        LET a == CredSet("ANTHROPIC_API_KEY")
            o == CredSet("OPENAI_API_KEY")
            r == CredSet("OPENROUTER_API_KEY")
            g == CredSet("GROQ_API_KEY")
        IN  /\ a => ResolvedPair = <<S_anthropic, M_claude>>
            /\ (~a /\ o) => ResolvedPair = <<S_openai, M_gpt4o>>
            /\ (~a /\ ~o /\ r) => ResolvedPair = <<S_openrouter, M_qwen>>
            /\ (~a /\ ~o /\ ~r /\ g) => ResolvedPair = <<S_groq, M_llama3>>
            /\ (~a /\ ~o /\ ~r /\ ~g /\ resolved.probe.kind = "ok"
                   /\ resolved.probe.names # <<>>)
                 => ResolvedPair =
                      <<S_ollama, S_ollama_colon \o SortedBySize(resolved.probe.names)[1]>>

\* C3 witness: openrouter and groq are both available, the two before them are not,
\* and openrouter is returned.
C3_Witness ==
    /\ resolved.called /\ NeitherGiven
    /\ ~CredSet("ANTHROPIC_API_KEY") /\ ~CredSet("OPENAI_API_KEY")
    /\ CredSet("OPENROUTER_API_KEY") /\ CredSet("GROQ_API_KEY")
    /\ ResolvedPair = <<S_openrouter, M_qwen>>

ProbeFails(probe) == probe.kind # "ok" \/ probe.names = <<>>

\* C4: with neither argument given and no credential set, every failure of the local
\* query (no connection, no curl, a malformed listing, no or an empty model list, an
\* entry without a name) ends in the sentinel pair, and nothing is raised.
C4_SentinelOnProbeFailure ==
    (resolved.called /\ NeitherGiven /\ NoCredSet /\ ProbeFails(resolved.probe)) =>
        /\ resolved.result.raised = "none"
        /\ ResolvedPair = <<S_no_model_available, S_no_model_available>>

\* C4 witness: the listing has an entry without a name (caught by the last except
\* clause) and the sentinel is returned.
C4_Witness ==
    /\ resolved.called /\ NeitherGiven /\ NoCredSet
    /\ resolved.probe.kind = "no_name"
    /\ ResolvedPair = <<S_no_model_available, S_no_model_available>>

\* C8: with both arguments given the pair is returned unchanged, whatever the
\* credentials, and neither a credential nor the local service is consulted; the
\* platform need not be a known one.
C8_ExplicitPairUnchanged ==
    (resolved.called /\ BothGiven) =>
        /\ ResolvedPair = <<resolved.platform, resolved.model>>
        /\ ~resolved.result.probed
        /\ resolved.result.keysRead = {}
        /\ resolved.result.raised = "none"

\* C8 witness: an unknown platform with a model of another platform, no credential set.
C8_Witness ==
    /\ resolved.called /\ NoCredSet
    /\ resolved.platform = S_azure /\ resolved.model = M_gpt4o
    /\ ResolvedPair = <<S_azure, M_gpt4o>>

KnownModelPattern(m) ==
    \/ StartsWith(m, S_claude) \/ StartsWith(m, S_gpt) \/ StartsWith(m, S_llama)
    \/ StartsWith(m, S_qwen) \/ Contains(m, S_openrouter)
    \/ m = S_ollama \/ StartsWith(m, S_ollama_colon)

\* C9: with only a model given the model is returned unchanged and the platform
\* follows its prefix: claude -> anthropic, gpt -> openai, llama -> groq,
\* qwen -> openrouter; a name of no known pattern -> anthropic.
C9_PlatformFromModelPrefix ==
    (resolved.called /\ OnlyModelGiven) =>
        LET m == resolved.model
            p == resolved.result.platform
        IN  /\ resolved.result.model = m
            /\ StartsWith(m, S_claude) => p = S_anthropic
            /\ StartsWith(m, S_gpt) => p = S_openai
            /\ StartsWith(m, S_llama) => p = S_groq
            /\ StartsWith(m, S_qwen) => p = S_openrouter
            /\ ~KnownModelPattern(m) => p = S_anthropic

\* C9 witness: a llama name resolved to groq.
C9_Witness ==
    /\ resolved.called /\ OnlyModelGiven
    /\ resolved.model = M_llama3
    /\ ResolvedPair = <<S_groq, M_llama3>>

\* C9 second case reached: a name of no known pattern resolved to anthropic.
C9_WitnessUnknown ==
    /\ resolved.called /\ OnlyModelGiven
    /\ resolved.model = M_mistral
    /\ ResolvedPair = <<S_anthropic, M_mistral>>

\* C10: with only a platform given the platform is returned with its default model
\* (for ollama the token "ollama"); an unrecognized platform gives anthropic with its
\* default model.  No evidence is consulted.
C10_DefaultModelOfPlatform ==
    (resolved.called /\ OnlyPlatformGiven) =>
        LET p == resolved.platform
        IN  /\ p = S_anthropic => ResolvedPair = <<S_anthropic, M_claude>>
            /\ p = S_openai => ResolvedPair = <<S_openai, M_gpt4o>>
            /\ p = S_groq => ResolvedPair = <<S_groq, M_llama3>>
            /\ p = S_openrouter => ResolvedPair = <<S_openrouter, M_qwen>>
            /\ p = S_ollama => ResolvedPair = <<S_ollama, S_ollama>>
            /\ p \notin {S_anthropic, S_openai, S_groq, S_openrouter, S_ollama}
                 => ResolvedPair = <<S_anthropic, M_claude>>
            /\ ~resolved.result.probed
            /\ resolved.result.keysRead = {}

\* C10 witness: an unrecognized platform, with a credential of another platform set,
\* resolved to anthropic and its default model.
C10_Witness ==
    /\ resolved.called /\ OnlyPlatformGiven
    /\ resolved.platform = S_azure
    /\ CredSet("OPENAI_API_KEY") /\ ~CredSet("ANTHROPIC_API_KEY")
    /\ ResolvedPair = <<S_anthropic, M_claude>>


---------------------------------------------------------------------------
(* get_host_agent_response, called with every combination of arguments,    *)
(* credentials and behaviour of the outside.                               *)

G_object ==
    <<"{", QUOTE, "question", QUOTE, ":", SP, QUOTE, "Q", QUOTE, ",", SP,
      QUOTE, "correct_answer", QUOTE, ":", SP, "true", ",", SP,
      QUOTE, "explanation", QUOTE, ":", SP, QUOTE, "E", QUOTE, "}">>

\* What a completion call can do.
Completions ==
    {[kind |-> k, text |-> <<>>] : k \in {"raises", "no_choices", "null_text"}}
        \cup {[kind |-> "text", text |-> t] : t \in {<<>>, G_object, <<"Sorry,", SP, "no.">>}}

\* The outside as far as a call with these arguments consumes it: the listing only
\* when the local endpoint is queried, the import of groq only in the groq branch,
\* the completion only when a completion call is made.
Worlds(client, model, platform, env, probeSet, completionSet) ==
    LET base == [probe |-> NoProbe, groq_installed |-> TRUE, completion |-> NoCompletion]
        used0 == get_host_agent_response(client, model, platform, env, base).used
        probes == IF "probe" \in used0 THEN probeSet ELSE {NoProbe}
        imports == IF "groq_import" \in used0 THEN BOOLEAN ELSE {TRUE}
        Upto(pr, g) == [probe |-> pr, groq_installed |-> g, completion |-> NoCompletion]
    IN  UNION {{[Upto(pg[1], pg[2]) EXCEPT !.completion = co] :
                   co \in IF "completion" \in
                               get_host_agent_response(client, model, platform, env,
                                                       Upto(pg[1], pg[2])).used
                          THEN completionSet ELSE {NoCompletion}} :
               pg \in probes \X imports}

Clients == {None, <<"Anthropic">>}

S_quoted == <<"a", QUOTE, "b">>

DispatchPlatformArgs == PlatformArgs \cup {S_quoted}

DispatchModelArgs == {None, M_claude, M_gpt4o, M_llama3, M_qwen, S_ollama, M_ollama_phi3, M_mistral}

InitDispatch ==
    /\ environ \in EnvStates
    /\ resolved = NoCall
    /\ dispatched = NoCall
    /\ parsed = NoCall
    /\ listed = NoCall
    /\ history = <<>>
    /\ IdleQuiz

\* One call of get_host_agent_response.
Dispatch ==
    /\ ~dispatched.called
    /\ \E c \in Clients, p \in DispatchPlatformArgs, m \in DispatchModelArgs :
          \E w \in Worlds(c, m, p, environ, Probes, Completions) :
              dispatched' = [called |-> TRUE, client |-> c, platform |-> p, model |-> m,
                             world |-> w,
                             result |-> get_host_agent_response(c, m, p, environ, w)]
    /\ UNCHANGED <<environ, resolved, parsed, quizVars>>
    /\ UNCHANGED <<listed, history>>

SpecDispatch == InitDispatch /\ [][Dispatch]_vars

\* The text is a JSON object with an error marker and non-empty question and
\* explanation texts.
IsErrorResponse(text) ==
    LET j == json_loads(text)
    IN  /\ j.ok
        /\ j.val.t = "obj"
        /\ DictHas(j.val, K_error)
        /\ \A key \in {K_question, K_explanation} :
              /\ DictHas(j.val, key)
              /\ DictAt(j.val, key).t = "str"
              /\ DictAt(j.val, key).v # <<>>

\* The provider call failed: no completion call was made (missing library, missing
\* credential, unknown platform, no local model, a client that could not be built),
\* or the call raised, or its completion had no choices or no text.
DispatchFailed ==
    \/ dispatched.result.calls = <<>>
    \/ dispatched.world.completion.kind \in {"raises", "no_choices", "null_text"}

\* The completion call returned the empty string as its text.
EmptyTextCompletion ==
    /\ dispatched.result.calls # <<>>
    /\ dispatched.world.completion = [kind |-> "text", text |-> <<>>]

\* C2 as stated: get_host_agent_response never raises, and after every failure,
\* an empty completion included, it returns an error-marked JSON object with
\* placeholder question and explanation.
C2_ErrorResponseOnEveryFailure ==
    dispatched.called =>
        /\ dispatched.result.raised = "none"
        /\ (DispatchFailed \/ EmptyTextCompletion) => IsErrorResponse(dispatched.result.text)

\* C2 amended: get_host_agent_response never raises, and after every failure (no
\* completion call made, a call that raised, a completion without choices or without
\* text) it returns an error-marked JSON object with placeholder question and
\* explanation; a completion whose text is the empty string is returned as it is.
C2_ErrorResponseOnFailure ==
    dispatched.called =>
        /\ dispatched.result.raised = "none"
        /\ DispatchFailed => IsErrorResponse(dispatched.result.text)
        /\ EmptyTextCompletion => dispatched.result.text = <<>>

\* C2 witness: a completion call was made to groq, it raised, and the text returned
\* is an error-marked object.
C2_Witness ==
    /\ dispatched.called
    /\ dispatched.result.calls # <<>>
    /\ dispatched.result.calls[1].api = "groq"
    /\ dispatched.world.completion.kind = "raises"
    /\ IsErrorResponse(dispatched.result.text)

---------------------------------------------------------------------------
(* parse_question_response, called with responses of every shape.          *)

Topic == <<"Python">>
Subtopic == None
Focus == <<"text">>

QuestionTypes == {"multiple_choice", "true_false", "cloze"}

\* The members a response object may have, in the order the prompts ask for them.
MemberPool ==
    << <<K_question, JStr(<<"What", SP, "is", SP, "it?">>)>>,
       <<K_options, JArr(<<JStr(<<"A.", SP, "one">>), JStr(<<"B.", SP, "two">>),
                           JStr(<<"C.", SP, "three">>), JStr(<<"D.", SP, "four">>)>>)>>,
       <<K_correct_answer, JStr(<<"A.", SP, "one">>)>>,
       <<K_type, JStr(<<"multiple_choice">>)>>,
       <<K_concept_phrase, JStr(<<"the", SP, "concept">>)>>,
       <<K_explanation, JStr(<<"Because.">>)>> >>

\* The objects with a subset of the members.
ObjectValues ==
    {JObj(SelectSeq(MemberPool, LAMBDA pr : pr[1] \in keys)) :
        keys \in SUBSET {MemberPool[k][1] : k \in 1..Len(MemberPool)}}

LabeledText ==
    <<"**Question:**", SP, "What", SP, "is", SP, "it?", NL,
      "**Options:**", NL, "A.", SP, "one", NL, "B.", SP, "two", NL,
      "C.", SP, "three", NL, "D.", SP, "four", NL,
      "**Correct Answer:**", SP, "A.", SP, "one">>

\* The bodies of a response: objects, objects with an empty or null explanation,
\* other JSON values, an error-marked response,
\* partial JSON, labeled text, prose, nothing.
Bodies ==
    {json_dumps(o) : o \in ObjectValues}
        \cup {json_dumps(JObj(DictSet(MemberPool, K_explanation, e))) : e \in {JStr(<<>>), JNull}}
        \cup {<<"4", "2">>, <<QUOTE, "text", QUOTE>>, <<"null">>, <<"true">>,
              <<"[", QUOTE, "a", QUOTE, "]">>,
              ErrorResponse(<<"No GROQ API key available">>, <<"The GROQ API key is not available.">>),
              <<"{", QUOTE, "question", QUOTE, ":", SP, QUOTE, "What">>,
              <<"}", SP, "{">>,
              LabeledText,
              <<"I", SP, "cannot", SP, "answer.">>,
              <<>>}

\* How a body is wrapped: not at all, after a reasoning preamble, in a fence with
\* and without language tag, between prose.
Wrapped(body) ==
    {body,
     <<THINK_OPEN, "hmm", THINK_CLOSE, NL>> \o body,
     <<FENCE, "json", NL>> \o body \o <<NL, FENCE>>,
     <<FENCE, NL>> \o body \o <<NL, FENCE>>,
     <<"Here", SP, "it", SP, "is:", NL>> \o body \o <<NL, "Done.">>}

Responses == UNION {Wrapped(b) : b \in Bodies}

InitParse ==
    /\ environ = [key \in CredentialKeys |-> None]
    /\ resolved = NoCall
    /\ dispatched = NoCall
    /\ parsed = NoCall
    /\ listed = NoCall
    /\ history = <<>>
    /\ IdleQuiz

\* One call of parse_question_response.
Parse ==
    /\ ~parsed.called
    /\ \E raw \in Responses, qt \in QuestionTypes :
          parsed' = [called |-> TRUE, raw |-> raw, question_type |-> qt,
                     result |-> parse_question_response(raw, qt, Topic, Subtopic, Focus)]
    /\ UNCHANGED <<environ, resolved, dispatched, quizVars>>
    /\ UNCHANGED <<listed, history>>

SpecParse == InitParse /\ [][Parse]_vars

\* C1: for every raw response and every question type parse_question_response
\* returns a question record and raises nothing.
C1_ParseNeverRaises ==
    parsed.called =>
        /\ parsed.result.raised = "none"
        /\ Len(parsed.result.rec) = 1


---------------------------------------------------------------------------
(* generate_quiz of quiz_generator_server and of tools.mcp_tools.          *)

\* microcourse_content before any branch assigned it.
Unbound == <<"unbound">>

G_full == json_dumps(JObj(MemberPool))

\* The outside during a request.
QuizProbes ==
    {[kind |-> "connect_fail", names |-> <<>>], [kind |-> "ok", names |-> <<>>],
     [kind |-> "ok", names |-> <<N_phi3>>]}

QuizCompletions ==
    {[kind |-> "raises", text |-> <<>>], [kind |-> "text", text |-> G_full],
     [kind |-> "text", text |-> <<"4", "2">>]}

\* No credential or exactly one.
QuizEnvStates ==
    {env \in [CredentialKeys -> {None, <<"k">>}] :
        Cardinality({key \in CredentialKeys : env[key] # None}) <= 1}

\* (platform, model) of a request.
QuizTargets == {<<None, None>>, <<S_ollama, None>>, <<S_openai, None>>, <<None, M_llama3>>}

\* The branch of quiz_generator_server.generate_quiz that writes the microcourse:
\* whether microcourse_content is assigned and the completion calls made.
MicrocourseBranch(selected_platform, selected_model, env, w) ==
    LET got == get_available_ollama_models(w.probe)
        Made(api, model) == [bound |-> TRUE, calls |-> << [api |-> api, model |-> model] >>]
        NotMade == [bound |-> TRUE, calls |-> <<>>]
    IN  IF selected_platform = S_groq
        THEN IF ~w.groq_installed \/ ~Truthy(EnvGet(env, "GROQ_API_KEY")) THEN NotMade
             ELSE Made("groq", selected_model)
        ELSE IF selected_platform = S_openrouter
        THEN IF ~Truthy(EnvGet(env, "OPENROUTER_API_KEY")) THEN NotMade
             ELSE Made("openrouter", selected_model)
        ELSE IF selected_platform = S_ollama
        THEN IF selected_model = S_ollama /\ got.models = <<>> THEN NotMade
             ELSE Made("ollama", OllamaModelName(selected_model, got.models))
        ELSE IF selected_platform = S_anthropic
        THEN IF ~Truthy(EnvGet(env, "ANTHROPIC_API_KEY")) THEN NotMade
             ELSE Made("anthropic", selected_model)
        ELSE [bound |-> FALSE, calls |-> <<>>]

\* The outside as far as the microcourse branch consumes it.
MicrocourseWorlds(selected_platform, selected_model, env) ==
    {w \in [probe : QuizProbes \cup {NoProbe}, groq_installed : BOOLEAN,
            completion : QuizCompletions \cup {NoCompletion}] :
        /\ (w.probe # NoProbe) <=> (selected_platform = S_ollama /\ selected_model = S_ollama)
        /\ ~w.groq_installed => selected_platform = S_groq
        /\ (w.completion # NoCompletion)
              <=> (MicrocourseBranch(selected_platform, selected_model, env, w).calls # <<>>)}

\* One entry of the log of provider calls.
Step(iter, phase, r, w) ==
    [iter |-> iter, phase |-> phase, platform |-> r.platform, model |-> r.model,
     probe |-> w.probe, calls |-> r.calls]

Requests(entry) ==
    {[called |-> TRUE, entry |-> entry, platform |-> t[1], model |-> t[2],
      question_type |-> qt, num_questions |-> n] :
        t \in QuizTargets, qt \in QuestionTypes, n \in 0..MaxQuestions}

Init ==
    /\ environ \in QuizEnvStates
    /\ resolved = NoCall
    /\ dispatched = NoCall
    /\ parsed = NoCall
    /\ listed = NoCall
    /\ history = <<>>
    /\ IdleQuiz

\* quiz_generator_server.generate_quiz up to the check of the sentinel: the
\* resolver is called, and the tutorial is returned when nothing is available.
StartServer ==
    /\ pc = "idle"
    /\ \E r \in Requests("server"), probe \in QuizProbes \cup {NoProbe} :
          \E s \in {select_platform_and_model(r.platform, r.model, environ, probe)} :
              /\ s.probed <=> probe # NoProbe
              /\ req' = r
              /\ resolved' = [called |-> TRUE, platform |-> r.platform, model |-> r.model,
                              probe |-> probe, result |-> s]
              /\ sel' = <<s.platform, s.model>>
              /\ IF s.platform = S_no_model_available
                 THEN pc' = "done" /\ outcome' = "tutorial"
                 ELSE pc' = "microcourse" /\ outcome' = outcome
    /\ UNCHANGED <<environ, dispatched, parsed, course, i, prompt, response, questions, steps>>
    /\ UNCHANGED <<listed, history>>

\* The microcourse of quiz_generator_server.generate_quiz.
Microcourse ==
    /\ pc = "microcourse"
    /\ \E w \in MicrocourseWorlds(sel[1], sel[2], environ) :
          \E b \in {MicrocourseBranch(sel[1], sel[2], environ, w)} :
              /\ course' = IF b.bound THEN <<"content">> ELSE Unbound
              /\ steps' = Append(steps, [iter |-> 0, phase |-> "microcourse",
                                         platform |-> sel[1], model |-> sel[2],
                                         probe |-> w.probe, calls |-> b.calls])
    /\ pc' = "loop"
    /\ UNCHANGED <<environ, resolved, dispatched, parsed, req, sel, i, prompt, response,
                   questions, outcome>>
    /\ UNCHANGED <<listed, history>>

\* tools.mcp_tools.generate_quiz up to its loop.
StartMcp ==
    /\ pc = "idle"
    /\ \E r \in Requests("mcp") : req' = r
    /\ pc' = "loop"
    /\ UNCHANGED <<environ, resolved, dispatched, parsed, sel, course, i, prompt, response,
                   questions, steps, outcome>>
    /\ UNCHANGED <<listed, history>>

\* The first statement of the loop body: generate_<type>_question builds the prompt
\* and hands it to _generate_question, which returns
\* get_host_agent_response(prompt, self.client) with self.client = None.
GenerateQuestion ==
    /\ pc = "loop"
    /\ i < req.num_questions
    /\ \E w \in Worlds(None, None, None, environ, QuizProbes, QuizCompletions) :
          \E r \in {get_host_agent_response(None, None, None, environ, w)} :
              /\ prompt' = r.text
              /\ steps' = Append(steps, Step(i + 1, "generate", r, w))
    /\ pc' = "send"
    /\ UNCHANGED <<environ, resolved, dispatched, parsed, req, sel, course, i, response,
                   questions, outcome>>
    /\ UNCHANGED <<listed, history>>

\* The arguments of the call in the loop body: the server passes what it resolved,
\* the tool what it was asked for.
SendArgs ==
    IF req.entry = "server" THEN [platform |-> sel[1], model |-> sel[2]]
    ELSE [platform |-> req.platform, model |-> req.model]

\* response = get_host_agent_response(prompt, None, model, platform)
SendPrompt ==
    /\ pc = "send"
    /\ \E w \in Worlds(None, SendArgs.model, SendArgs.platform, environ,
                      QuizProbes, QuizCompletions) :
          \E r \in {get_host_agent_response(None, SendArgs.model, SendArgs.platform,
                                             environ, w)} :
              /\ response' = r.text
              /\ steps' = Append(steps, Step(i + 1, "send", r, w))
    /\ pc' = "parse"
    /\ UNCHANGED <<environ, resolved, dispatched, parsed, req, sel, course, i, prompt,
                   questions, outcome>>
    /\ UNCHANGED <<listed, history>>

\* question = parse_question_response(response, ...); questions.append(question)
ParseResponse ==
    /\ pc = "parse"
    /\ \E r \in {parse_question_response(response, req.question_type, Topic, Subtopic, Focus)} :
          IF r.raised # "none"
          THEN /\ pc' = "done"
               /\ outcome' = r.raised
               /\ UNCHANGED <<i, questions>>
          ELSE /\ pc' = "loop"
               /\ questions' = questions \o r.rec
               /\ i' = i + 1
               /\ UNCHANGED outcome
    /\ UNCHANGED <<environ, resolved, dispatched, parsed, req, sel, course, prompt, response,
                   steps>>
    /\ UNCHANGED <<listed, history>>

\* After the loop: the output file is written and the result returned. The server
\* hands microcourse_content to the writer.
WriteOutput ==
    /\ pc = "loop"
    /\ i >= req.num_questions
    /\ pc' = "done"
    /\ outcome' = IF req.entry = "server" /\ course = Unbound THEN "UnboundLocalError"
                  ELSE "returned"
    /\ UNCHANGED <<environ, resolved, dispatched, parsed, req, sel, course, i, prompt,
                   response, questions, steps>>
    /\ UNCHANGED <<listed, history>>

Next ==
    \/ StartServer
    \/ Microcourse
    \/ StartMcp
    \/ GenerateQuestion
    \/ SendPrompt
    \/ ParseResponse
    \/ WriteOutput

Spec == Init /\ [][Next]_vars

MadeCall(step) == step.calls # <<>>

\* C5: nothing is sent to a provider where the resolver answered with the sentinel:
\* the server returns its tutorial before the microcourse and the loop, and a call of
\* get_host_agent_response that resolved to the sentinel makes no completion call;
\* with no credential set and every local query failing, a request sends nothing.
C5_NoTransportWhenUnavailable ==
    /\ \A k \in 1..Len(steps) :
          steps[k].platform = S_no_model_available => ~MadeCall(steps[k])
    /\ (req.called /\ req.entry = "server" /\ sel[1] = S_no_model_available) =>
          /\ steps = <<>>
          /\ pc = "done"
          /\ outcome = "tutorial"
    /\ (/\ NoCredSet
        /\ resolved.called => ProbeFails(resolved.probe)
        /\ \A k \in 1..Len(steps) : ProbeFails(steps[k].probe)) =>
          \A k \in 1..Len(steps) : ~MadeCall(steps[k])

\* C5 witness: a request of the tool ran two calls that resolved to the sentinel
\* after a failed local query, and the server returned its tutorial.
C5_Witness ==
    /\ req.called
    /\ req.entry = "mcp"
    /\ Len(steps) >= 2
    /\ \A k \in 1..2 :
          /\ steps[k].platform = S_no_model_available
          /\ steps[k].probe.kind = "connect_fail"

\* C5 witness on the server: the resolver answered with the sentinel and the
\* tutorial was returned.
C5_WitnessServer ==
    /\ req.called
    /\ req.entry = "server"
    /\ sel = <<S_no_model_available, S_no_model_available>>
    /\ outcome = "tutorial"

\* The calls of get_host_agent_response in iteration k that made a completion call.
TransportsOf(k) ==
    {j \in 1..Len(steps) : steps[j].iter = k /\ steps[j].phase # "microcourse"
                              /\ MadeCall(steps[j])}

\* C6: in one iteration of the question loop at most one call of
\* get_host_agent_response makes a completion call.
C6_OneDispatchPerQuestion ==
    \A k \in 1..Len(steps) : Cardinality(TransportsOf(k)) <= 1

\* C7: a request that went into the loop ends with num_questions records.
C7_AllIterationsRun ==
    (pc = "done" /\ outcome # "tutorial") => Len(questions) = req.num_questions

---------------------------------------------------------------------------
(* get_available_ollama_models on its own: the order of the listing        *)

MaxListed == 3

L_modelA70b == <<"m", "o", "d", "e", "l", "A", ":", "7", "0", "b">>
L_modelB3b == <<"m", "o", "d", "e", "l", "B", ":", "3", "b">>
L_modelC == <<"m", "o", "d", "e", "l", "C">>
L_X13B == <<"X", ":", "1", "3", "B">>
L_v1000b == <<"v", ":", "1", "0", "0", "0", "b">>
L_big2000b == <<"b", "i", "g", ":", "2", "0", "0", "0", "b">>
ListedNames == {L_modelA70b, L_modelB3b, L_modelC, L_X13B, L_v1000b, L_big2000b}

\* The listings of at most MaxListed distinct names the local endpoint can report.
ListedProbes ==
    {[kind |-> k, names |-> <<>>] : k \in ProbeFailureKinds}
        \cup {[kind |-> "ok", names |-> l] :
                l \in UNION {{l \in [1..n -> ListedNames] :
                                 \A a, b \in 1..n : a # b => l[a] # l[b]} : n \in 0..MaxListed}}

InitListing ==
    /\ environ \in QuizEnvStates
    /\ resolved = NoCall
    /\ dispatched = NoCall
    /\ parsed = NoCall
    /\ listed = NoCall
    /\ history = <<>>
    /\ IdleQuiz

\* One call of get_available_ollama_models against what the local endpoint answers.
ListModels ==
    /\ ~listed.called
    /\ \E probe \in ListedProbes :
          \E r \in {get_available_ollama_models(probe)} :
             listed' = [called |-> TRUE, probe |-> probe, raised |-> r.raised,
                        models |-> r.models]
    /\ UNCHANGED <<environ, resolved, dispatched, parsed, history, quizVars>>

SpecListing == InitListing /\ [][ListModels]_vars

\* A name has a parsed size: (\d+)b matches its lowered form.
SizeParses(name) == SizeMatches(Lower(name)) # {}

\* int(match.group(1)) of a name whose size parses.
ParsedSize(name) == ToInt(SubSeq(Lower(name), Min(SizeMatches(Lower(name))),
                                 DigitRunEnd(Lower(name), Min(SizeMatches(Lower(name))))))

IsPermutationOf(a, b) ==
    /\ Len(a) = Len(b)
    /\ \A x \in {a[k] : k \in 1..Len(a)} \cup {b[k] : k \in 1..Len(b)} :
          Cardinality({k \in 1..Len(a) : a[k] = x}) = Cardinality({k \in 1..Len(b) : b[k] = x})

Listed == listed.called /\ listed.probe.kind = "ok" /\ listed.raised = "none"

\* C11: the returned list is a permutation of the discovered names, the names whose
\* size parses are in ascending order of that size, and every name whose size does
\* not parse comes after every name whose size parses.
C11_AscendingSizeUnparsedLast ==
    Listed =>
       /\ IsPermutationOf(listed.models, listed.probe.names)
       /\ \A a, b \in 1..Len(listed.models) :
             /\ (a < b /\ SizeParses(listed.models[a]) /\ SizeParses(listed.models[b]))
                   => ParsedSize(listed.models[a]) <= ParsedSize(listed.models[b])
             /\ (~SizeParses(listed.models[a]) /\ SizeParses(listed.models[b])) => b < a

\* The part that holds: a permutation in ascending order of get_param_size.
C11_AscendingKey ==
    Listed =>
       /\ IsPermutationOf(listed.models, listed.probe.names)
       /\ \A a, b \in 1..Len(listed.models) :
             a < b => get_param_size(listed.models[a]) <= get_param_size(listed.models[b])

\* The example of the claim.
C11_Example ==
    (Listed /\ listed.probe.names = <<L_modelA70b, L_modelB3b, L_modelC>>)
       => listed.models = <<L_modelB3b, L_modelA70b, L_modelC>>

C11_ExampleReached ==
    Listed /\ listed.probe.names = <<L_modelA70b, L_modelB3b, L_modelC>>

---------------------------------------------------------------------------
(* Repeated calls of the resolver while the evidence changes               *)

MaxCalls == 2

\* The evidence: no credential, one of two credentials, both; the local endpoint
\* down, or listing one of two models.
HistoryEnvStates ==
    {env \in [CredentialKeys -> {None, <<"k">>}] :
        env["OPENAI_API_KEY"] = None /\ env["OPENROUTER_API_KEY"] = None}

HistoryProbes ==
    {[kind |-> "connect_fail", names |-> <<>>], [kind |-> "ok", names |-> <<N_gemma70>>],
     [kind |-> "ok", names |-> <<N_phi3>>]}

HistoryArgs == {<<None, None>>, <<S_groq, None>>, <<None, M_gpt4o>>, <<S_ollama, M_llama3>>}

\* The names the local endpoint lists, nothing when the query fails.
LocalList(probe) == IF probe.kind = "ok" THEN probe.names ELSE <<>>

SameArguments(e, specified_platform, specified_model) ==
    e.platform = specified_platform /\ e.model = specified_model

\* A resolver that keeps the result of the first call made with the same arguments.
ResolveCall_Remembered(specified_platform, specified_model, env, probe, earlier) ==
    IF \E k \in 1..Len(earlier) : SameArguments(earlier[k], specified_platform, specified_model)
    THEN earlier[Min({k \in 1..Len(earlier) :
                        SameArguments(earlier[k], specified_platform, specified_model)})].result
    ELSE select_platform_and_model(specified_platform, specified_model, env, probe)

\* A call of select_platform_and_model after the calls in earlier: the function has
\* no module-level state, no cache and no default argument that could carry a
\* result from one call to the next.
ResolveCall(specified_platform, specified_model, env, probe, earlier) ==
    select_platform_and_model(specified_platform, specified_model, env, probe)

InitHistory ==
    /\ environ \in HistoryEnvStates
    /\ resolved = NoCall
    /\ dispatched = NoCall
    /\ parsed = NoCall
    /\ listed = NoCall
    /\ history = <<>>
    /\ IdleQuiz

\* A credential variable is set or unset between two calls.
ChangeEnviron ==
    /\ \E env \in HistoryEnvStates : env # environ /\ environ' = env
    /\ UNCHANGED <<resolved, dispatched, parsed, listed, history, quizVars>>

\* One more call of the resolver, against the credentials of the moment and what
\* the local endpoint lists at the moment.
ResolveAgain ==
    /\ Len(history) < MaxCalls
    /\ \E a \in HistoryArgs, probe \in HistoryProbes :
          \E r \in {ResolveCall(a[1], a[2], environ, probe, history)} :
             history' = Append(history, [platform |-> a[1], model |-> a[2], env |-> environ,
                                         probe |-> probe, result |-> r])
    /\ UNCHANGED <<environ, resolved, dispatched, parsed, listed, quizVars>>

NextHistory == ChangeEnviron \/ ResolveAgain

SpecHistory == InitHistory /\ [][NextHistory]_vars

SameInputs(a, b) ==
    /\ a.platform = b.platform /\ a.model = b.model
    /\ a.env = b.env
    /\ LocalList(a.probe) = LocalList(b.probe)

PairOf(e) == <<e.result.platform, e.result.model>>

\* The evidence behind a platform at the time of the call e.
EvidenceFor(e, platform) ==
    CASE platform = S_anthropic -> Truthy(e.env["ANTHROPIC_API_KEY"])
      [] platform = S_openai -> Truthy(e.env["OPENAI_API_KEY"])
      [] platform = S_openrouter -> Truthy(e.env["OPENROUTER_API_KEY"])
      [] platform = S_groq -> Truthy(e.env["GROQ_API_KEY"])
      [] platform = S_ollama -> LocalList(e.probe) # <<>>
      [] OTHER -> FALSE

FallbackCall(e) == ~Truthy(e.platform) /\ ~Truthy(e.model)

C12_WitnessEvidenceChanged ==
    /\ Len(history) = 2
    /\ FallbackCall(history[1]) /\ FallbackCall(history[2])
    /\ history[1].env # history[2].env
    /\ PairOf(history[1]) = <<S_anthropic, M_claude>>
    /\ PairOf(history[2]) = <<S_ollama, S_ollama_colon \o N_phi3>>

---------------------------------------------------------------------------
(* Claims about parse_question_response (SpecParse)                        *)

\* What clean_json_response gave for the response of the call, and what json.loads
\* gave for that.
CleanedOf(raw) == clean_json_response(raw)
LoadedOf(raw) == json_loads(CleanedOf(raw).text)

HasSubscriptedKeys(data, question_type) ==
    \A k \in 1..Len(SubscriptedKeys(question_type)) :
        DictHas(data, SubscriptedKeys(question_type)[k])

\* The cleaned response does not parse, or parses to an object without a key that
\* the constructor call subscripts.
Unparsable(raw) == CleanedOf(raw).raised = "none" /\ ~LoadedOf(raw).ok
LacksRequiredKey(raw, question_type) ==
    /\ CleanedOf(raw).raised = "none"
    /\ LoadedOf(raw).ok
    /\ LoadedOf(raw).val.t = "obj"
    /\ ~HasSubscriptedKeys(LoadedOf(raw).val, question_type)

IsText(val) == val.t = "str" /\ val.v # <<>>

OptionLetters == <<"A.", "B.", "C.", "D.">>

\* C13: when the cleaned response cannot be parsed or lacks a required key, the
\* fixed placeholder of the question type is returned: four options lettered A. to
\* D. and correct_answer "A" for multiple_choice, correct_answer true for
\* true_false, a question with a blank and a fixed answer for cloze; question,
\* correct_answer and explanation are non-empty and the explanation names an error.
C13_PlaceholderOnParseFailure ==
    (parsed.called /\ (Unparsable(parsed.raw) \/ LacksRequiredKey(parsed.raw, parsed.question_type))) =>
        /\ parsed.result.raised = "none"
        /\ Len(parsed.result.rec) = 1
        /\ parsed.result.rec[1].type = parsed.question_type
        /\ IsText(parsed.result.rec[1].question)
        /\ IsText(parsed.result.rec[1].explanation)
        /\ HasAtom(parsed.result.rec[1].explanation.v, "error")
        /\ parsed.question_type = "multiple_choice" =>
              /\ parsed.result.rec[1].options.t = "arr"
              /\ Len(parsed.result.rec[1].options.v) = 4
              /\ \A k \in 1..4 : /\ parsed.result.rec[1].options.v[k].t = "str"
                                 /\ parsed.result.rec[1].options.v[k].v[1] = OptionLetters[k]
              /\ parsed.result.rec[1].correct_answer = JStr(<<"A">>)
        /\ parsed.question_type = "true_false" =>
              parsed.result.rec[1].correct_answer = JTrue
        /\ parsed.question_type = "cloze" =>
              /\ HasAtom(parsed.result.rec[1].question.v, "___")
              /\ parsed.result.rec[1].correct_answer = JStr(<<"blank">>)

\* C13 witness: an object without "correct_answer" asked as multiple_choice gives
\* the placeholder with four options.
C13_Witness ==
    /\ parsed.called /\ parsed.question_type = "multiple_choice"
    /\ LacksRequiredKey(parsed.raw, "multiple_choice")
    /\ DictHas(LoadedOf(parsed.raw).val, K_question)
    /\ Len(parsed.result.rec) = 1
    /\ Len(parsed.result.rec[1].options.v) = 4

\* C13 witness: text that is no JSON asked as cloze gives the cloze placeholder.
C13_WitnessUnparsable ==
    /\ parsed.called /\ parsed.question_type = "cloze"
    /\ Unparsable(parsed.raw)
    /\ Len(parsed.result.rec) = 1
    /\ parsed.result.rec[1].correct_answer = JStr(<<"blank">>)

\* The parsed object has the subscripted keys of the type and no "explanation".
NoExplanationKey(raw, question_type) ==
    /\ CleanedOf(raw).raised = "none"
    /\ LoadedOf(raw).ok
    /\ LoadedOf(raw).val.t = "obj"
    /\ HasSubscriptedKeys(LoadedOf(raw).val, question_type)
    /\ ~DictHas(LoadedOf(raw).val, K_explanation)

\* C14: when the parsed object has the other required keys but no "explanation",
\* the record's explanation is the generated sentence naming the object's
\* concept_phrase if it has one and the topic otherwise, for each question type.
C14_DefaultExplanation ==
    (parsed.called /\ NoExplanationKey(parsed.raw, parsed.question_type)) =>
        /\ parsed.result.raised = "none"
        /\ Len(parsed.result.rec) = 1
        /\ parsed.result.rec[1].explanation =
              JStr(<<"This is a question about ">>
                   \o (IF DictHas(LoadedOf(parsed.raw).val, K_concept_phrase)
                       THEN DictAt(LoadedOf(parsed.raw).val, K_concept_phrase).v
                       ELSE Topic)
                   \o <<".">>)

\* C14 witness: an object with a concept_phrase and no explanation.
C14_Witness ==
    /\ parsed.called /\ NoExplanationKey(parsed.raw, parsed.question_type)
    /\ DictHas(LoadedOf(parsed.raw).val, K_concept_phrase)
    /\ Len(parsed.result.rec) = 1
    /\ parsed.result.rec[1].explanation =
          JStr(<<"This is a question about ", "the", SP, "concept", ".">>)

\* C14 witness: an object with neither concept_phrase nor explanation.
C14_WitnessTopic ==
    /\ parsed.called /\ NoExplanationKey(parsed.raw, parsed.question_type)
    /\ ~DictHas(LoadedOf(parsed.raw).val, K_concept_phrase)
    /\ Len(parsed.result.rec) = 1
    /\ parsed.result.rec[1].explanation = JStr(<<"This is a question about ", "Python", ".">>)

\* The response has no brace and carries the question, options and answer headers.
LabeledWithoutBraces(raw) ==
    /\ ~HasAtom(raw, "{") /\ ~HasAtom(raw, "}")
    /\ HasAtom(raw, "**Question:**") /\ HasAtom(raw, "**Options:**")
    /\ HasAtom(raw, "**Correct Answer:**")

\* C15: for text without braces that has **Question:**, **Options:** with four lines
\* lettered A. to D. and **Correct Answer:**, clean_json_response yields an object
\* whose options are those four lines in source order, whose correct_answer is the
\* text after the answer header and whose question is the text after the question
\* header.
C15_LabeledBlockRecovered ==
    (parsed.called /\ LabeledWithoutBraces(parsed.raw)) =>
        /\ CleanedOf(parsed.raw).raised = "none"
        /\ LoadedOf(parsed.raw).ok
        /\ LoadedOf(parsed.raw).val.t = "obj"
        /\ DictGet(LoadedOf(parsed.raw).val, K_options, JNull) =
              JArr(<<JStr(<<"A.", SP, "one">>), JStr(<<"B.", SP, "two">>),
                     JStr(<<"C.", SP, "three">>), JStr(<<"D.", SP, "four">>)>>)
        /\ DictGet(LoadedOf(parsed.raw).val, K_correct_answer, JNull) = JStr(<<"A.", SP, "one">>)
        /\ DictGet(LoadedOf(parsed.raw).val, K_question, JNull) =
              JStr(<<"What", SP, "is", SP, "it?">>)

\* What the code does with such text: the labeled stage is entered and raises.
C15_LabeledBlockRaises ==
    (parsed.called /\ LabeledWithoutBraces(parsed.raw)) =>
        /\ CleanedOf(parsed.raw).raised = "UnboundLocalError"
        /\ parsed.result.raised = "UnboundLocalError"

C15_LabeledBlockReached == parsed.called /\ parsed.raw = LabeledText

---------------------------------------------------------------------------
(* A response and the same response inside a code fence with a language tag *)

FenceTags == {"json", "python"}

\* Opening fence and tag, the text on its own lines, closing fence.
FenceWrap(tag, text) == <<FENCE, tag, NL>> \o text \o <<NL, FENCE>>

\* parse_question_response on a response and on the fenced response.
ParseFenced ==
    /\ ~parsed.called
    /\ \E raw \in Responses, qt \in QuestionTypes, tag \in FenceTags :
          parsed' = [called |-> TRUE, raw |-> raw, question_type |-> qt,
                     result |-> parse_question_response(raw, qt, Topic, Subtopic, Focus),
                     tag |-> tag,
                     fenced |-> parse_question_response(FenceWrap(tag, raw), qt,
                                                        Topic, Subtopic, Focus)]
    /\ UNCHANGED <<environ, resolved, dispatched, listed, history, quizVars>>

SpecFence == InitParse /\ [][ParseFenced]_vars

\* C16: for any text T and every question type, T inside a code fence with a
\* language tag gives the same record as T itself.
C16_FenceTransparent ==
    parsed.called => parsed.fenced = parsed.result

\* The part that holds: whenever T itself gives a record, the fenced T gives the
\* same record.
C16_FenceTransparentForRecords ==
    (parsed.called /\ parsed.result.raised = "none") => parsed.fenced = parsed.result

\* A fenced object yields the record of the object, under either tag.
C16_FencedObjectReached ==
    /\ parsed.called /\ parsed.raw = G_full /\ parsed.tag = "python"
    /\ parsed.result.raised = "none" /\ parsed.fenced = parsed.result
    /\ parsed.result.rec[1].question = JStr(<<"What", SP, "is", SP, "it?">>)

---------------------------------------------------------------------------
(* question_models: to_dict, and the way back through parse_question_response *)

K_topic == <<"topic">>
K_subtopic == <<"subtopic">>
K_focus == <<"focus">>

\* A str or None attribute as a JSON value.
AttrValue(x) == IF x = None THEN JNull ELSE JStr(x)

\* BaseQuestion.to_dict
BaseQuestion_to_dict(r) ==
    << <<K_question, r.question>>,
       <<K_type, JStr(<<r.type>>)>>,
       <<K_explanation, r.explanation>>,
       <<K_topic, AttrValue(r.topic)>>,
       <<K_subtopic, AttrValue(r.subtopic)>>,
       <<K_focus, AttrValue(r.focus)>>,
       <<K_language, r.language>>,
       <<K_concept_phrase, r.concept_phrase>> >>

\* to_dict of the three classes: the base dict, then options (MultipleChoiceQuestion
\* only), then correct_answer.
to_dict(r) ==
    IF r.type = "multiple_choice"
    THEN JObj(DictSet(DictSet(BaseQuestion_to_dict(r), K_options, r.options),
                      K_correct_answer, r.correct_answer))
    ELSE JObj(DictSet(BaseQuestion_to_dict(r), K_correct_answer, r.correct_answer))

\* Question texts: plain, with a quote and a line break, with braces, and one that
\* talks about the reasoning tags.
QuestionTexts ==
    {JStr(<<"What", SP, "is", SP, "it?">>),
     JStr(<<"Say", SP, QUOTE, "hi", QUOTE, NL, "twice?">>),
     JStr(<<"Is", SP, "{", "}", SP, "a", SP, "dict?">>),
     JStr(<<"What", SP, "does", SP, THINK_OPEN, "x", THINK_CLOSE, SP, "mean?">>)}

ExplanationTexts == {JStr(<<"Because.">>), JStr(<<>>), JNull}

AnswersOf(type) ==
    IF type = "true_false" THEN {JTrue, JFalse}
    ELSE IF type = "multiple_choice" THEN {JStr(<<"A.", SP, "one">>)}
    ELSE {JStr(<<"it">>)}

\* The records of one type.
RecordsOf(type) ==
    {IF type = "multiple_choice"
     THEN [type |-> type, question |-> q, correct_answer |-> a, explanation |-> e,
           topic |-> Topic, subtopic |-> st, focus |-> Focus, language |-> l,
           concept_phrase |-> c,
           options |-> JArr(<<JStr(<<"A.", SP, "one">>), JStr(<<"B.", SP, "two">>),
                              JStr(<<"C.", SP, "three">>), JStr(<<"D.", SP, "four">>)>>)]
     ELSE [type |-> type, question |-> q, correct_answer |-> a, explanation |-> e,
           topic |-> Topic, subtopic |-> st, focus |-> Focus, language |-> l,
           concept_phrase |-> c] :
       q \in QuestionTexts, a \in AnswersOf(type), e \in ExplanationTexts,
       st \in {None, <<"loops">>}, l \in {JNull, JStr(<<"python">>)},
       c \in {JStr(<<>>), JStr(<<"the", SP, "concept">>)}}

\* json.dumps(r.to_dict()), then clean_json_response and parse_question_response on
\* that text with the type, topic, subtopic and focus of r.
RoundTrip ==
    /\ ~parsed.called
    /\ \E type \in QuestionTypes :
          \E r \in RecordsOf(type) :
             \E text \in {json_dumps(to_dict(r))} :
                parsed' = [called |-> TRUE, record |-> r, text |-> text,
                           cleaned |-> clean_json_response(text),
                           result |-> parse_question_response(text, r.type, r.topic,
                                                              r.subtopic, r.focus)]
    /\ UNCHANGED <<environ, resolved, dispatched, listed, history, quizVars>>

SpecRoundTrip == InitParse /\ [][RoundTrip]_vars

\* C17: for any question record r, parse_question_response on json.dumps(r.to_dict())
\* with r's type, topic, subtopic and focus returns a record equal to r in every
\* field, and clean_json_response returns the JSON text unchanged.
C17_RoundTrip ==
    parsed.called =>
        /\ parsed.cleaned = [raised |-> "none", text |-> parsed.text]
        /\ parsed.result = [raised |-> "none", rec |-> <<parsed.record>>]

\* The part that holds: the round trip of a record whose texts do not carry both
\* reasoning tags.
C17_RoundTripWithoutTags ==
    (parsed.called /\ ~(HasAtom(parsed.text, THINK_OPEN) /\ HasAtom(parsed.text, THINK_CLOSE))) =>
        /\ parsed.cleaned = [raised |-> "none", text |-> parsed.text]
        /\ parsed.result = [raised |-> "none", rec |-> <<parsed.record>>]

C17_RoundTripReached ==
    /\ parsed.called /\ parsed.record.type = "true_false"
    /\ parsed.record.correct_answer = JFalse
    /\ HasAtom(parsed.record.question.v, QUOTE)
    /\ parsed.result = [raised |-> "none", rec |-> <<parsed.record>>]

---------------------------------------------------------------------------
(* More claims about generate_quiz (Spec)                                  *)

\* The loop of a request of the server ran to its end, so the output writer is called.
WriterCalled ==
    /\ req.called /\ req.entry = "server"
    /\ pc = "done" /\ outcome # "tutorial"
    /\ Len(questions) = req.num_questions

\* C18: in quiz_generator_server.generate_quiz, for every pair the resolver returns
\* other than the sentinel, microcourse_content has a value when the output writer
\* is called, and the request returns its result instead of raising.
C18_CourseAssignedBeforeWriter ==
    WriterCalled => (course # Unbound /\ outcome = "returned")

\* The part that holds: the four platforms that have a microcourse branch.
C18_CourseAssignedInBranches ==
    (WriterCalled /\ sel[1] \in {S_groq, S_openrouter, S_ollama, S_anthropic})
        => (course # Unbound /\ outcome = "returned")

C18_BranchReached ==
    WriterCalled /\ sel[1] = S_groq /\ req.num_questions = MaxQuestions /\ outcome = "returned"

\* The pair resolved from the arguments of the request: the server resolves it once
\* (selected_platform, selected_model); the tool hands its arguments to each call,
\* which resolves them with the credentials and the local listing it sees.
RequestSelection(probe) ==
    IF req.entry = "server"
    THEN [platform |-> sel[1], model |-> sel[2]]
    ELSE select_platform_and_model(req.platform, req.model, environ, probe)

\* C19: every call that reached a provider while a request was served was
\* dispatched with the selection resolved from the platform and model arguments of
\* the request.
C19_DispatchUsesRequestSelection ==
    \A k \in 1..Len(steps) :
        MadeCall(steps[k]) =>
            /\ steps[k].platform = RequestSelection(steps[k].probe).platform
            /\ steps[k].model = RequestSelection(steps[k].probe).model

\* The part that holds: the call of the loop body that is given the arguments, and
\* the microcourse.
C19_SendUsesRequestSelection ==
    \A k \in 1..Len(steps) :
        (MadeCall(steps[k]) /\ steps[k].phase # "generate") =>
            /\ steps[k].platform = RequestSelection(steps[k].probe).platform
            /\ steps[k].model = RequestSelection(steps[k].probe).model

C19_SendReached ==
    /\ req.called /\ req.platform = S_ollama
    /\ \E k \in 1..Len(steps) :
          /\ MadeCall(steps[k]) /\ steps[k].phase = "send"
          /\ steps[k].platform = S_ollama

---------------------------------------------------------------------------
(* The direct-parse stage of clean_json_response (SpecParse)               *)

\* The text the direct-parse stage sees: after the reasoning preamble and the fence.
BeforeDirectParse(raw) == Unfence(AfterThink(raw))

\* json.loads(response) succeeded, so `return response` of the try block ran.
ReturnedDirectly(raw) == json_loads(BeforeDirectParse(raw)).ok

\* A parsed value is an object with the keys every question type needs.
HasExpectedKeys(val) ==
    val.t = "obj" /\ DictHas(val, K_question) /\ DictHas(val, K_correct_answer)

\* C20: clean_json_response returns the text through the direct-parse stage only if
\* it parses as JSON and is an object with the expected required keys; other JSON
\* goes on to the later recovery stages.
C20_DirectParseChecksKeys ==
    (parsed.called /\ ReturnedDirectly(parsed.raw)) =>
        HasExpectedKeys(json_loads(BeforeDirectParse(parsed.raw)).val)

\* What the code does: every text that parses as JSON is returned as it is,
\* whatever the value.
C20_DirectParseReturnsAnyJson ==
    (parsed.called /\ json_loads(BeforeDirectParse(parsed.raw)).ok) =>
        CleanedOf(parsed.raw) = [raised |-> "none", text |-> BeforeDirectParse(parsed.raw)]

C20_NonObjectReached ==
    /\ parsed.called /\ parsed.raw = <<"[", QUOTE, "a", QUOTE, "]">>
    /\ CleanedOf(parsed.raw) = [raised |-> "none", text |-> parsed.raw]

---------------------------------------------------------------------------
(* clean_json_response stage by stage                                      *)

CB_span == <<"see", SP, "{", "not", SP, "json", "}", SP, "ok">>
CB_two_spans == <<"{", "a", "}", SP, "and", SP, "{", "b", "}">>
CB_embedded == <<"Here:", SP>> \o G_full \o <<SP, "Done.">>
\* An object without options, as it may follow a labeled block.
G_small == json_dumps(JObj(<< <<K_question, JStr(<<"What?">>)>>,
                              <<K_correct_answer, JStr(<<"one">>)>> >>))
CB_unlettered ==
    <<"**Question:**", SP, "What?", NL, "**Options:**", NL, "1.", SP, "one", NL,
      "2.", SP, "two", NL, "**Correct Answer:**", SP, "one", NL>> \o G_small
CB_noquestion ==
    <<"**Question:**", NL, "**Options:**", NL, "A.", SP, "one", NL, "B.", SP, "two", NL,
      "C.", SP, "three", NL, "D.", SP, "four", NL, "**Correct Answer:**", NL>> \o G_full

CleanBodies ==
    {G_full, <<"4", "2">>, <<"I", SP, "cannot", SP, "answer.">>, <<"}", SP, "{">>,
     CB_span, CB_two_spans, CB_embedded, LabeledText, CB_unlettered, CB_noquestion}

\* Before the body: nothing, a reasoning preamble, a stray closing delimiter.
CleanPrefixes ==
    {<<>>, <<THINK_OPEN, "hmm", THINK_CLOSE, NL>>, <<THINK_CLOSE, SP, THINK_OPEN, "x", NL>>}

\* After the body: nothing, a closing remark, a second closing delimiter with text.
CleanSuffixes == {<<>>, <<NL, "Done.">>, <<NL, THINK_CLOSE, NL, "more">>}

CleanInputs ==
    UNION {{pre \o b \o suf, FenceWrap("json", pre \o b \o suf)} :
              pre \in CleanPrefixes, b \in CleanBodies, suf \in CleanSuffixes}

\* One call of clean_json_response, with the text each stage hands on.
Clean ==
    /\ ~parsed.called
    /\ \E raw \in CleanInputs :
          parsed' = [called |-> TRUE, raw |-> raw,
                     afterThink |-> AfterThink(raw),
                     unfenced |-> Unfence(AfterThink(raw)),
                     cleaned |-> clean_json_response(raw)]
    /\ UNCHANGED <<environ, resolved, dispatched, listed, history, quizVars>>

SpecClean == InitParse /\ [][Clean]_vars

HasBothDelimiters(raw) == HasAtom(raw, THINK_OPEN) /\ HasAtom(raw, THINK_CLOSE)

\* Everything after the first closing delimiter.
AfterFirstClose(raw) ==
    SubSeq(raw, Min({k \in 1..Len(raw) : raw[k] = THINK_CLOSE}) + 1, Len(raw))

\* C21: when the raw text has both thinking delimiters, everything up to and
\* including the closing delimiter is discarded and the whole remainder, trimmed,
\* goes on: nothing after the closing delimiter is dropped, also when the remainder
\* has another closing delimiter.
C21_WholeRemainderKept ==
    (parsed.called /\ HasBothDelimiters(parsed.raw)) =>
        parsed.afterThink = Strip(AfterFirstClose(parsed.raw))

\* The part that holds: the remainder goes on whole when it has no further
\* closing delimiter.
C21_RemainderKeptWithOneClose ==
    (parsed.called /\ HasBothDelimiters(parsed.raw)
        /\ ~HasAtom(AfterFirstClose(parsed.raw), THINK_CLOSE)) =>
        parsed.afterThink = Strip(AfterFirstClose(parsed.raw))

C21_SecondCloseReached ==
    /\ parsed.called
    /\ parsed.raw = <<THINK_OPEN, "hmm", THINK_CLOSE, NL>> \o G_full \o <<NL, THINK_CLOSE, NL, "more">>
    /\ parsed.afterThink = G_full

---------------------------------------------------------------------------
(* More claims about parse_question_response (SpecParse)                   *)

\* The record takes the explanation of the parsed object: the object has the
\* subscripted keys of the type and an "explanation" key.
ExplanationTaken(raw, question_type) ==
    /\ CleanedOf(raw).raised = "none"
    /\ LoadedOf(raw).ok
    /\ LoadedOf(raw).val.t = "obj"
    /\ HasSubscriptedKeys(LoadedOf(raw).val, question_type)
    /\ DictHas(LoadedOf(raw).val, K_explanation)

\* C22: every record parse_question_response returns has an explanation that is
\* present and non-empty, on every recovery path, the labeled-block reconstruction
\* of text without an **Explanation:** header included.
C22_ExplanationNeverEmpty ==
    parsed.called =>
        /\ parsed.result.raised = "none" =>
              /\ Len(parsed.result.rec) = 1
              /\ IsText(parsed.result.rec[1].explanation)
        /\ LabeledWithoutBraces(parsed.raw) =>
              /\ parsed.result.raised = "none"
              /\ Len(parsed.result.rec) = 1
              /\ IsText(parsed.result.rec[1].explanation)

\* The part that holds: a record built without an "explanation" key, and every
\* placeholder, has a non-empty explanation.
C22_ExplanationFilledWhenKeyAbsent ==
    (parsed.called /\ parsed.result.raised = "none" /\ ~ExplanationTaken(parsed.raw, parsed.question_type))
        => IsText(parsed.result.rec[1].explanation)

C22_EmptyExplanationReached ==
    /\ parsed.called /\ parsed.result.raised = "none"
    /\ parsed.raw = json_dumps(JObj(DictSet(MemberPool, K_explanation, JStr(<<>>))))
    /\ parsed.result.rec[1].explanation = JStr(<<>>)

---------------------------------------------------------------------------
(* Claims about the stages of clean_json_response (SpecClean)              *)

AllHeaders ==
    {"**Question:**", "**Question Stem:**", "**Options:**", "**Correct Answer:**",
     "**Answer:**", "**Concept Phrase:**", "**Explanation:**"}

\* No line of the text starts with one of the four option letters.
NoLetteredOption(r) == \A k \in 1..Len(r) : r[k] \notin {"A.", "B.", "C.", "D."}

\* Nothing but white space between the header h and the next header or the end.
EmptyAfterHeader(r, h) ==
    \E k \in 1..Len(r) :
        /\ r[k] = h
        /\ SkipWs(r, k + 1) <= Len(r) => r[SkipWs(r, k + 1)] \in AllHeaders

\* The labeled stage is entered, and a question, a lettered option or an answer is missing.
LabeledIncomplete(r) ==
    /\ ~json_loads(r).ok
    /\ HasLabeledBlock(r)
    /\ \/ NoLetteredOption(r)
       \/ EmptyAfterHeader(r, "**Question:**")
       \/ EmptyAfterHeader(r, "**Correct Answer:**")

\* C23: labeled-block reconstruction returns an object only when a question, a
\* non-empty list of options and an answer were extracted; with the **Options:**
\* header present and no lettered line under it, or with nothing after the question
\* or answer header, nothing is reconstructed and recovery goes on to the
\* embedded-object extraction.
C23_IncompleteBlockFallsThrough ==
    (parsed.called /\ LabeledIncomplete(parsed.unfenced)) =>
        parsed.cleaned = [raised |-> "none", text |-> BraceSpan(parsed.unfenced).text]

\* What the code does with every text that enters the labeled stage.
C23_LabeledStageRaises ==
    (parsed.called /\ ~json_loads(parsed.unfenced).ok /\ HasLabeledBlock(parsed.unfenced)) =>
        parsed.cleaned.raised = "UnboundLocalError"

C23_IncompleteBlockReached ==
    /\ parsed.called /\ parsed.raw = CB_unlettered
    /\ LabeledIncomplete(parsed.unfenced)
    /\ BraceSpan(parsed.unfenced).text = G_small

\* Direct parse fails and the three labels are not all there.
ReachesBraceStage(r) == ~json_loads(r).ok /\ ~HasLabeledBlock(r)

\* The positions of an opening brace with a closing brace somewhere after it.
BracePairs(r) ==
    {p \in (1..Len(r)) \X (1..Len(r)) : p[1] < p[2] /\ r[p[1]] = "{" /\ r[p[2]] = "}"}

C25_WitnessSpan ==
    /\ parsed.called /\ parsed.raw = CB_span
    /\ parsed.cleaned.text = <<"{", "not", SP, "json", "}">>

---------------------------------------------------------------------------
(* More claims about the resolver (SpecResolve)                            *)

HasLocalMarker(m) == m = S_ollama \/ StartsWith(m, S_ollama_colon)

\* C24: with only a model given, every name that begins with the marker "ollama:"
\* (and the bare token "ollama") resolves to the ollama platform, whatever follows
\* the marker.
C24_LocalMarkerToOllama ==
    (resolved.called /\ OnlyModelGiven /\ HasLocalMarker(resolved.model)) =>
        ResolvedPair = <<S_ollama, resolved.model>>

\* The part that holds: the marker decides when "openrouter" does not occur in the name.
C24_LocalMarkerWithoutOpenrouter ==
    (resolved.called /\ OnlyModelGiven /\ HasLocalMarker(resolved.model)
        /\ ~Contains(resolved.model, S_openrouter)) =>
        ResolvedPair = <<S_ollama, resolved.model>>

C24_MarkerReached ==
    /\ resolved.called /\ OnlyModelGiven /\ resolved.model = M_ollama_phi3
    /\ ResolvedPair = <<S_ollama, M_ollama_phi3>>

---------------------------------------------------------------------------
(* What get_host_agent_response returned, handed to parse_question_response *)

InitDispatchParse ==
    /\ environ \in QuizEnvStates
    /\ resolved = NoCall
    /\ dispatched = NoCall
    /\ parsed = NoCall
    /\ listed = NoCall
    /\ history = <<>>
    /\ IdleQuiz

\* question = parse_question_response(response, question_type, topic, subtopic, focus)
\* on the response of the call before.
ParseDispatched ==
    /\ dispatched.called
    /\ dispatched.result.raised = "none"
    /\ ~parsed.called
    /\ \E qt \in QuestionTypes :
          parsed' = [called |-> TRUE, raw |-> dispatched.result.text, question_type |-> qt,
                     result |-> parse_question_response(dispatched.result.text, qt,
                                                        Topic, Subtopic, Focus)]
    /\ UNCHANGED <<environ, resolved, dispatched, listed, history, quizVars>>

NextDispatchParse == Dispatch \/ ParseDispatched

SpecDispatchParse == InitDispatchParse /\ [][NextDispatchParse]_vars

C26_WitnessUnknownPlatform ==
    /\ parsed.called /\ dispatched.result.error
    /\ dispatched.result.platform = S_azure
    /\ parsed.question_type = "cloze"
    /\ parsed.result.rec = <<PlaceholderRecord("cloze", Topic, Subtopic, Focus)>>

---------------------------------------------------------------------------
(* The pair the resolver returned, fed back into the resolver              *)

InitReresolve ==
    /\ environ \in QuizEnvStates
    /\ resolved = NoCall
    /\ dispatched = NoCall
    /\ parsed = NoCall
    /\ listed = NoCall
    /\ history = <<>>
    /\ IdleQuiz

\* The call generate_quiz makes: any arguments, the evidence of the moment.
ResolveFirst ==
    /\ history = <<>>
    /\ \E p \in PlatformArgs, m \in ModelArgs, probe \in QuizProbes \cup {NoProbe} :
          \E r \in {select_platform_and_model(p, m, environ, probe)} :
             /\ r.probed <=> probe # NoProbe
             /\ history' = <<[platform |-> p, model |-> m, env |-> environ,
                              probe |-> probe, result |-> r]>>
    /\ UNCHANGED <<environ, resolved, dispatched, parsed, listed, quizVars>>

\* The credentials change between the two calls.
EvidenceChanges ==
    /\ Len(history) = 1
    /\ \E env \in QuizEnvStates : env # environ /\ environ' = env
    /\ UNCHANGED <<resolved, dispatched, parsed, listed, history, quizVars>>

\* The call inside get_host_agent_response: the returned pair as arguments, the
\* evidence of the moment.
ResolveReturned ==
    /\ Len(history) = 1
    /\ history[1].result.raised = "none"
    /\ \E probe \in QuizProbes \cup {NoProbe} :
          \E r \in {select_platform_and_model(history[1].result.platform,
                                              history[1].result.model, environ, probe)} :
             /\ r.probed <=> probe # NoProbe
             /\ history' = Append(history, [platform |-> history[1].result.platform,
                                            model |-> history[1].result.model,
                                            env |-> environ, probe |-> probe, result |-> r])
    /\ UNCHANGED <<environ, resolved, dispatched, parsed, listed, quizVars>>

NextReresolve == ResolveFirst \/ EvidenceChanges \/ ResolveReturned

SpecReresolve == InitReresolve /\ [][NextReresolve]_vars

\* C27: a pair returned by select_platform_and_model, passed back as
\* (specified_platform, specified_model), comes back as the same pair under any
\* evidence, the sentinel included.
C27_ResolutionIdempotent ==
    Len(history) = 2 =>
        /\ history[2].result.raised = "none"
        /\ PairOf(history[2]) = PairOf(history[1])

\* C27 witness: the fallback gave the sentinel, a credential was set afterwards,
\* and the sentinel passed back came back as the sentinel.
C27_Witness ==
    /\ Len(history) = 2
    /\ FallbackCall(history[1])
    /\ PairOf(history[1]) = <<S_no_model_available, S_no_model_available>>
    /\ Truthy(history[2].env["ANTHROPIC_API_KEY"])
    /\ PairOf(history[2]) = <<S_no_model_available, S_no_model_available>>

\* C27 witness: a platform alone gave its default pair, which came back unchanged.
C27_WitnessDefault ==
    /\ Len(history) = 2
    /\ history[1].platform = S_azure /\ ~Truthy(history[1].model)
    /\ PairOf(history[2]) = <<S_anthropic, M_claude>>

---------------------------------------------------------------------------
(* A missing credential at dispatch time                                   *)

\* The credential variable each cloud branch reads.
CredentialOf(platform) ==
    CASE platform = S_anthropic  -> "ANTHROPIC_API_KEY"
      [] platform = S_openai     -> "OPENAI_API_KEY"
      [] platform = S_openrouter -> "OPENROUTER_API_KEY"
      [] platform = S_groq       -> "GROQ_API_KEY"

CloudPlatforms == {S_anthropic, S_openai, S_openrouter, S_groq}

\* The call resolved to a cloud platform whose credential variable is not set (and,
\* for anthropic, was given no client).
DispatchedWithoutCredential ==
    /\ dispatched.called
    /\ dispatched.result.raised = "none"
    /\ dispatched.result.platform \in CloudPlatforms
    /\ EnvGet(environ, CredentialOf(dispatched.result.platform)) = None
    /\ dispatched.result.platform = S_anthropic => ~Truthy(dispatched.client)

\* C28: a call that resolved to anthropic (no client given), openai, openrouter or
\* groq while that platform's credential variable is not set returns an error-marked
\* response and makes no completion call.
C28_MissingCredentialNoCall ==
    DispatchedWithoutCredential =>
        /\ dispatched.result.error
        /\ IsErrorResponse(dispatched.result.text)
        /\ dispatched.result.calls = <<>>

\* C28 witness: openai named explicitly, its key not set, another key set.
C28_Witness ==
    /\ DispatchedWithoutCredential
    /\ dispatched.result.platform = S_openai
    /\ Truthy(EnvGet(environ, "ANTHROPIC_API_KEY"))
    /\ dispatched.result.calls = <<>>

\* C28 witness: anthropic with no client and no key.
C28_WitnessAnthropic ==
    /\ DispatchedWithoutCredential
    /\ dispatched.result.platform = S_anthropic
    /\ dispatched.result.calls = <<>>

\* C28 witness: groq with the package present and no key.
C28_WitnessGroq ==
    /\ DispatchedWithoutCredential
    /\ dispatched.result.platform = S_groq
    /\ dispatched.world.groq_installed
    /\ dispatched.result.calls = <<>>

---------------------------------------------------------------------------
(* The name given to the local transport after the fallback                *)

\* The resolver fell through to the local provider: neither argument was given, no
\* credential was found and the listing had a name.
FellThroughToLocal ==
    /\ dispatched.called
    /\ ~Truthy(dispatched.platform)
    /\ ~Truthy(dispatched.model)
    /\ dispatched.result.raised = "none"
    /\ dispatched.result.platform = S_ollama

\* C29: after the fallback to the local provider, the local transport is called
\* once with the first name of the size-sorted listing, exactly as listed, also
\* when that name has a colon.
C29_LocalNameAsDiscovered ==
    FellThroughToLocal =>
        /\ dispatched.result.model =
              S_ollama_colon \o get_available_ollama_models(dispatched.world.probe).models[1]
        /\ Len(dispatched.result.calls) = 1
        /\ dispatched.result.calls[1].api = "ollama"
        /\ dispatched.result.calls[1].model =
              get_available_ollama_models(dispatched.world.probe).models[1]

\* C29 witness: the listing has two names, the smaller one has a colon and was
\* listed second; it is the name the transport was given.
C29_Witness ==
    /\ FellThroughToLocal
    /\ dispatched.world.probe.names = <<N_gemma70, N_phi3>>
    /\ dispatched.result.calls = << [api |-> "ollama", model |-> N_phi3] >>

\* C29 witness: a name without a colon.
C29_WitnessPlain ==
    /\ FellThroughToLocal
    /\ dispatched.world.probe.names = <<N_tiny>>
    /\ dispatched.result.calls = << [api |-> "ollama", model |-> N_tiny] >>

---------------------------------------------------------------------------
(* The placeholder on the quiz page                                        *)

\* create_html_quiz: the options and the correctAnswer written to the page for a
\* multiple_choice record.
PageOptions(q) == q.options.v
PageCorrectAnswer(q) == q.correct_answer

\* question.options.findIndex(option => option === question.correctAnswer): the
\* first index (from 0) of an option equal to the answer, -1 when there is none.
correctAnswerIndex(q) ==
    IF \E k \in 1..Len(PageOptions(q)) : PageOptions(q)[k] = PageCorrectAnswer(q)
    THEN Min({k \in 1..Len(PageOptions(q)) : PageOptions(q)[k] = PageCorrectAnswer(q)}) - 1
    ELSE -1

\* The call returned the multiple_choice placeholder.
ReturnedChoicePlaceholder ==
    /\ parsed.called
    /\ parsed.question_type = "multiple_choice"
    /\ parsed.result.raised = "none"
    /\ parsed.result.rec = <<PlaceholderRecord("multiple_choice", Topic, Subtopic, Focus)>>

\* C30: the correct_answer of the multiple_choice placeholder is equal to exactly
\* one element of its options, the comparison by which the page finds the correct
\* option.
C30_PlaceholderAnswerAmongOptions ==
    ReturnedChoicePlaceholder =>
        /\ Cardinality({k \in 1..Len(PageOptions(parsed.result.rec[1])) :
                           PageOptions(parsed.result.rec[1])[k]
                              = PageCorrectAnswer(parsed.result.rec[1])}) = 1
        /\ correctAnswerIndex(parsed.result.rec[1]) \in 0..3

\* What holds instead: the page finds no correct option for the placeholder.
C30_PlaceholderMarksNoOption ==
    ReturnedChoicePlaceholder => correctAnswerIndex(parsed.result.rec[1]) = -1

\* A placeholder was returned for text that is no JSON.
C30_PlaceholderReached ==
    /\ ReturnedChoicePlaceholder
    /\ Unparsable(parsed.raw)

\* A record built from a response whose answer is one of its options is found.
C30_ParsedAnswerFound ==
    /\ parsed.called /\ parsed.question_type = "multiple_choice"
    /\ parsed.result.raised = "none"
    /\ ~ReturnedChoicePlaceholder
    /\ parsed.result.rec[1].options.t = "arr"
    /\ correctAnswerIndex(parsed.result.rec[1]) = 0

=============================================================================
